---- MODULE Spec2Model ----
(***************************************************************************)
(* Model of the blandmockapi router (internal/router/router.go and         *)
(* internal/router/handler.go).                                            *)
(*                                                                         *)
(* Text is modelled as a sequence of atoms (TLA+ strings).  A path is the  *)
(* sequence of its "/" separators and its segment names, so "/api/users"   *)
(* is <<"/", "api", "/", "users">>; a method is the sequence of its        *)
(* letters; a response template is the sequence of its literal chunks and  *)
(* its {{...}} tokens.  The Go empty string is the empty sequence.         *)
(* Modelled paths are clean URL paths (no "//", "." or ".." segment, no    *)
(* "{" wildcard, no host or method prefix), besides the empty path.        *)
(***************************************************************************)
EXTENDS Integers, Sequences, FiniteSets, TLC

(***************************************************************************)
(* Bounds                                                                  *)
(***************************************************************************)
MaxEndpoints == 2
MaxLen == 4

(***************************************************************************)
(* strings package                                                         *)
(***************************************************************************)
HasSuffix(s, suffix) ==
    /\ Len(s) >= Len(suffix)
    /\ SubSeq(s, Len(s) - Len(suffix) + 1, Len(s)) = suffix

HasPrefix(s, prefix) ==
    /\ Len(s) >= Len(prefix)
    /\ SubSeq(s, 1, Len(prefix)) = prefix

TrimSuffix(s, suffix) ==
    IF HasSuffix(s, suffix) THEN SubSeq(s, 1, Len(s) - Len(suffix)) ELSE s

\* strings.ReplaceAll for an old string that is one atom
RECURSIVE ReplaceAll(_, _, _)
ReplaceAll(s, old, new) ==
    IF s = <<>> THEN <<>>
    ELSE (IF Head(s) = old THEN new ELSE <<Head(s)>>)
             \o ReplaceAll(Tail(s), old, new)

\* strings.Join(elems, sep), sep one atom
RECURSIVE Join(_, _)
Join(elems, sep) ==
    IF elems = <<>> THEN <<>>
    ELSE IF Len(elems) = 1 THEN elems[1]
    ELSE elems[1] \o <<sep>> \o Join(Tail(elems), sep)

\* unicode.ToUpper on the letters the modelled methods use
ToUpperChar(c) ==
    CASE c = "g" -> "G" [] c = "e" -> "E" [] c = "t" -> "T"
      [] c = "p" -> "P" [] c = "o" -> "O" [] c = "s" -> "S"
      [] c = "u" -> "U" [] c = "d" -> "D" [] c = "l" -> "L"
      [] OTHER -> c

ToUpper(s) == [i \in 1..Len(s) |-> ToUpperChar(s[i])]

\* every order in which the elements of a finite set can be iterated
\* (Go map iteration order is unspecified)
Orders(S) ==
    {f \in [1..Cardinality(S) -> S] : \A a \in S : \E i \in DOMAIN f : f[i] = a}

(***************************************************************************)
(* matchesPattern                                                          *)
(***************************************************************************)
\* mutant: the wildcard rule without the test that the pattern ends in "/"
matchesPattern_AnyPrefix(pattern, path) ==
    IF pattern = path THEN TRUE
    ELSE IF TrimSuffix(pattern, <<"/">>) = TrimSuffix(path, <<"/">>) THEN TRUE
    ELSE IF HasPrefix(path, pattern) THEN TRUE
    ELSE FALSE

matchesPattern(pattern, path) ==
    IF pattern = path THEN TRUE
    ELSE IF TrimSuffix(pattern, <<"/">>) = TrimSuffix(path, <<"/">>) THEN TRUE
    ELSE IF HasSuffix(pattern, <<"/">>) /\ HasPrefix(path, pattern) THEN TRUE
    ELSE FALSE

(***************************************************************************)
(* Data: methods, paths, endpoint descriptors, requests                    *)
(***************************************************************************)
GET == <<"G", "E", "T">>
POST == <<"P", "O", "S", "T">>
PUT == <<"P", "U", "T">>
PATCH == <<"P", "A", "T", "C", "H">>
DELETE == <<"D", "E", "L", "E", "T", "E">>

HealthPath == <<"/", "health">>
DefaultGraphQLPath == <<"/", "graphql">>
ApiDir == <<"/", "api", "/">>
ApiUsers == <<"/", "api", "/", "users">>

\* a Go map literal is a function; the empty map is the empty function
EmptyMap == << >>

MapPut(m, k, v) == [x \in (DOMAIN m) \cup {k} |-> IF x = k THEN v ELSE m[x]]

\* models.EndpointConfig (Description is only documentation and is left out)
EndpointConfig(path, method, status, response, headers, delay) ==
    [Path |-> path, Method |-> method, Status |-> status,
     Response |-> response, Headers |-> headers, Delay |-> delay]

UsersTemplate == <<"{\"q\":\"", "{{query.x}}", "\",\"b\":", "{{body}}", "}">>
EchoTemplate == <<"{\"path\":\"", "{{path}}", "\",\"method\":\"", "{{method}}", "\"}">>
PlainTemplate == <<"{\"id\":1}">>

\* the status, response, headers and delay of the modelled descriptors:
\* status unset, status set, status negative
UnsetStatus ==
    [Status |-> 0, Response |-> UsersTemplate,
     Headers |-> [k \in {"content-type"} |-> <<"text/plain">>], Delay |-> 0]

Created ==
    [Status |-> 201, Response |-> EchoTemplate,
     Headers |-> [k \in {"X-Custom-Header"} |-> <<"custom-value">>],
     Delay |-> 100]

NegativeStatus ==
    [Status |-> -1, Response |-> PlainTemplate, Headers |-> EmptyMap,
     Delay |-> 0]

Endpoint(path, method, v) ==
    EndpointConfig(path, method, v.Status, v.Response, v.Headers, v.Delay)

\* the descriptors a configuration may hold: methods unset, lower-case and
\* upper-case; the same (path, method) with different descriptors; a
\* directory-style path; the health path; the empty path
EndpointInputs ==
    { Endpoint(ApiUsers, << >>, UnsetStatus),
      Endpoint(ApiUsers, <<"p", "o", "s", "t">>, Created),
      Endpoint(ApiUsers, GET, NegativeStatus),
      Endpoint(ApiUsers, POST, UnsetStatus),
      Endpoint(ApiDir, GET, Created),
      Endpoint(ApiDir, <<"p", "u", "t">>, UnsetStatus),
      Endpoint(HealthPath, GET, Created),
      Endpoint(<< >>, GET, Created) }

GraphQLPathInputs == {<< >>, ApiUsers}

\* *http.Request: URL.Path, Method, URL.Query() and Body
Request(path, method, query, body) ==
    [Path |-> path, Method |-> method, Query |-> query, Body |-> body]

RequestPaths ==
    {ApiDir, ApiUsers, ApiUsers \o <<"/">>, <<"/", "api">>, HealthPath,
     DefaultGraphQLPath, <<"/", "other">>}

RequestMethods == {GET, POST, DELETE}

\* the query parameters and the body the modelled requests carry
RequestQuery(method) ==
    IF method = DELETE THEN EmptyMap ELSE [k \in {"x"} |-> << <<"1">> >>]

RequestBody(method) ==
    IF method = POST THEN <<"{", " ", "\"a\"", ":", "1", "}">> ELSE << >>

Requests ==
    { Request(p, m, RequestQuery(m), RequestBody(m)) :
        p \in RequestPaths, m \in RequestMethods }

(***************************************************************************)
(* State                                                                   *)
(***************************************************************************)
VARIABLES
    mux,          \* Router.mux: registered pattern -> handler
    endpoints,    \* Router.endpoints
    pathMethods,  \* Router.pathMethods
    graphqlPath,  \* Router.graphqlPath
    hasGraphQL,   \* Router.hasGraphQL
    panicked,     \* a registration call panicked (the process is gone)
    lastCall,     \* the last operation called, its input and returned error
    resp,         \* what the last request got
    mpIn,         \* matchesPattern: the arguments of the last evaluation
    mpOut,        \* matchesPattern: its result
    hIn,          \* Handler: the descriptor and the request of one call
    hOut,         \* Handler: what the call wrote
    cfg,          \* runServer: the endpoints of the loaded configuration
    conns,        \* the server's requests in progress, one goroutine each
    tIn,          \* parseType / resolveType: signature and declared types
    tOut,         \* parseType / resolveType: the function called, its result
    gqlConfig,    \* graphql.Handler.config
    gqlSchema,    \* graphql.Handler.schema, as built by New
    gqlCall,      \* the last resolver invocation and what it returned
    gqlLog,       \* the lines buildSchema wrote to the log
    gqlPassed,    \* the graphql.SchemaConfig buildSchema gave to NewSchema
    gqlResp,      \* graphql.Handler.ServeHTTP: the last request and its answer
    files,        \* the parsed configuration files, in load order
    loader        \* config.Loader: its config and the number of files merged

routerVars == <<mux, endpoints, pathMethods, graphqlPath, hasGraphQL>>
matchVars == <<mpIn, mpOut>>
handlerVars == <<hIn, hOut>>
\* the state of the functions studied on their own
serveVars == <<cfg, conns>>
typeVars == <<tIn, tOut>>
gqlVars == <<gqlConfig, gqlSchema, gqlCall, gqlLog, gqlPassed, gqlResp>>
loadVars == <<files, loader>>
otherVars == <<matchVars, handlerVars, serveVars, typeVars, gqlVars, loadVars>>
vars == <<mux, endpoints, pathMethods, graphqlPath, hasGraphQL, panicked,
          lastCall, resp, mpIn, mpOut, hIn, hOut, cfg, conns, tIn, tOut,
          gqlConfig, gqlSchema, gqlCall, gqlLog, gqlPassed, gqlResp, files,
          loader>>

(***************************************************************************)
(* Responses                                                               *)
(***************************************************************************)
JSONContentType == <<"application/json">>

\* what a client gets: kind names the code that produced it, endpoint holds
\* the descriptor Handler was built from (empty when none was used), slept
\* the milliseconds spent in time.Sleep
Response(kind, status, headers, body, slept, endpoint) ==
    [kind |-> kind, status |-> status, headers |-> headers, body |-> body,
     slept |-> slept, endpoint |-> endpoint]

NoResponse == Response("none", 0, EmptyMap, << >>, 0, << >>)

\* textproto.CanonicalMIMEHeaderKey on the modelled header names
CanonicalMIMEHeaderKey(k) ==
    CASE k = "content-type" -> "Content-Type"
      [] OTHER -> k

\* http.Header.Set and http.Header.Get
HeaderSet(h, key, value) == MapPut(h, CanonicalMIMEHeaderKey(key), value)

HeaderGet(h, key) ==
    IF CanonicalMIMEHeaderKey(key) \in DOMAIN h
    THEN h[CanonicalMIMEHeaderKey(key)] ELSE << >>

\* ResponseWriter.WriteHeader panics on a code outside 100..999
ValidWriteHeaderCode(code) == code >= 100 /\ code <= 999

(***************************************************************************)
(* encoding/json on the modelled request bodies: whitespace atoms between   *)
(* tokens are insignificant; a value is a scalar, an empty object or array, *)
(* a one-member object or a one-element array                               *)
(***************************************************************************)
StripWS(b) == SelectSeq(b, LAMBDA a : a # " ")

IsJSONString(a) == a \in {"\"a\"", "\"b\""}

IsJSONScalar(a) == IsJSONString(a) \/ a \in {"1", "true", "false", "null"}

JSONValid(b) ==
    LET t == StripWS(b) IN
    \/ Len(t) = 1 /\ IsJSONScalar(t[1])
    \/ t = <<"{", "}">>
    \/ t = <<"[", "]">>
    \/ Len(t) = 3 /\ t[1] = "[" /\ IsJSONScalar(t[2]) /\ t[3] = "]"
    \/ /\ Len(t) = 5
       /\ t[1] = "{" /\ IsJSONString(t[2]) /\ t[3] = ":"
       /\ IsJSONScalar(t[4]) /\ t[5] = "}"

\* json.Marshal of the json.Unmarshal of a valid body: the compact form
JSONCompact(b) == StripWS(b)

(***************************************************************************)
(* handler.go                                                              *)
(***************************************************************************)
\* fmt.Sprintf("{{query.%s}}", key)
QueryToken(key) == "{{query." \o key \o "}}"

\* the query parameter loop of processResponse, keys visited in `order`
RECURSIVE ReplaceQuery(_, _, _)
ReplaceQuery(response, query, order) ==
    IF order = << >> THEN response
    ELSE LET key == Head(order)
             values == query[key]
             next == IF Len(values) > 0
                     THEN ReplaceAll(response, QueryToken(key), values[1])
                     ELSE response
         IN ReplaceQuery(next, query, Tail(order))

\* processResponse(response, r); order is the iteration order of r.URL.Query()
processResponse(response, r, order) ==
    LET r1 == ReplaceAll(response, "{{path}}", r.Path)
        r2 == ReplaceAll(r1, "{{method}}", r.Method)
        r3 == ReplaceQuery(r2, r.Query, order)
    IN IF r.Method = POST \/ r.Method = PUT \/ r.Method = PATCH
       THEN IF JSONValid(r.Body)
            THEN ReplaceAll(r3, "{{body}}", JSONCompact(r.Body))
            ELSE r3
       ELSE r3

\* the header loop of Handler, keys visited in `order`
RECURSIVE SetHeaders(_, _, _)
SetHeaders(h, headers, order) ==
    IF order = << >> THEN h
    ELSE SetHeaders(HeaderSet(h, Head(order), headers[Head(order)]),
                    headers, Tail(order))

\* the status Handler passes to WriteHeader
HandlerStatus(endpoint) == IF endpoint.Status = 0 THEN 200 ELSE endpoint.Status

\* mutant: the default Content-Type is set only when no configured header
\* names Content-Type
HandlerHeaders_DefaultWhenAbsent(endpoint, horder) ==
    LET h1 == SetHeaders(EmptyMap, endpoint.Headers, horder)
    IN IF "Content-Type" \notin DOMAIN h1
       THEN HeaderSet(h1, "Content-Type", JSONContentType) ELSE h1

\* the header map after the header loop and the Content-Type default
HandlerHeaders(endpoint, horder) ==
    LET h1 == SetHeaders(EmptyMap, endpoint.Headers, horder)
    IN IF HeaderGet(h1, "Content-Type") = << >>
       THEN HeaderSet(h1, "Content-Type", JSONContentType) ELSE h1

\* Handler(endpoint)(w, r) for one iteration order of the headers and of the
\* query parameters
HandlerRun(endpoint, r, horder, qorder) ==
    LET slept == IF endpoint.Delay > 0 THEN endpoint.Delay ELSE 0
        h2 == HandlerHeaders(endpoint, horder)
        status == HandlerStatus(endpoint)
    IN IF ValidWriteHeaderCode(status)
       THEN Response("Handler", status, h2,
                     processResponse(endpoint.Response, r, qorder),
                     slept, <<endpoint>>)
       ELSE Response("panic", 0, EmptyMap, << >>, slept, <<endpoint>>)

\* Handler(endpoint)(w, r): every outcome the map iteration orders allow
Handler(endpoint, r) ==
    { HandlerRun(endpoint, r, horder, qorder) :
        horder \in Orders(DOMAIN endpoint.Headers),
        qorder \in Orders(DOMAIN r.Query) }

HealthHandler(r) ==
    Response("HealthHandler", 200,
             [k \in {"Content-Type"} |-> JSONContentType],
             <<"{\"status\":\"healthy\",\"service\":\"blandmockapi\"}">>,
             0, << >>)

NotFoundHandler(r) ==
    Response("NotFoundHandler", 404,
             [k \in {"Content-Type"} |-> JSONContentType],
             <<"{\"error\":\"endpoint not found\",\"path\":\"">> \o r.Path
                 \o <<"\",\"method\":\"">> \o r.Method \o <<"\"}">>,
             0, << >>)

(***************************************************************************)
(* router.go: request side                                                 *)
(***************************************************************************)
\* fmt's %q of a []string: the quoted elements between brackets, separated
\* by one space
QuoteSlice(allowed) ==
    <<"[">>
        \o Join([i \in 1..Len(allowed) |-> <<"\"">> \o allowed[i] \o <<"\"">>],
                " ")
        \o <<"]">>

\* the method-not-allowed branch of multiMethodHandler; allowed is the slice
\* built by ranging over the method map
MethodNotAllowed(allowed, r) ==
    Response("MethodNotAllowed", 405,
             HeaderSet(HeaderSet(EmptyMap, "Content-Type", JSONContentType),
                       "Allow", Join(allowed, ", ")),
             <<"{\"error\":\"method not allowed\",\"allowed\":">>
                 \o QuoteSlice(allowed)
                 \o <<",\"received\":\"">> \o r.Method \o <<"\"}">>,
             0, << >>)

\* mutant: a method the path does not have falls through to the 404 handler
multiMethodHandler_NoMethodCheck(path, r) ==
    IF path \notin DOMAIN pathMethods
    THEN {NotFoundHandler(r)}
    ELSE LET methodMap == pathMethods[path] IN
         IF r.Method \notin DOMAIN methodMap
         THEN {NotFoundHandler(r)}
         ELSE Handler(methodMap[r.Method], r)

\* rt.multiMethodHandler(path)(w, r)
multiMethodHandler(path, r) ==
    IF path \notin DOMAIN pathMethods
    THEN {NotFoundHandler(r)}
    ELSE LET methodMap == pathMethods[path] IN
         IF r.Method \notin DOMAIN methodMap
         THEN { MethodNotAllowed(allowed, r) :
                  allowed \in Orders(DOMAIN methodMap) }
         ELSE Handler(methodMap[r.Method], r)

\* net/http ServeMux: a pattern ending in "/" matches the subtree below it,
\* any other pattern matches only itself
MuxMatches(pattern, path) ==
    IF HasSuffix(pattern, <<"/">>) THEN HasPrefix(path, pattern)
    ELSE pattern = path

\* http.NotFound
MuxNotFound ==
    Response("mux.NotFound", 404,
             [k \in {"Content-Type", "X-Content-Type-Options"} |->
                 IF k = "Content-Type" THEN <<"text/plain; charset=utf-8">>
                 ELSE <<"nosniff">>],
             <<"404 page not found\n">>, 0, << >>)

\* the redirect ServeMux answers for /tree when only /tree/ is registered
MuxRedirect(path) ==
    Response("mux.Redirect", 301,
             [k \in {"Location"} |-> path \o <<"/">>], << >>, 0, << >>)

\* the handler the mux stored for a pattern, run on r
RunHandler(h, r) ==
    CASE h.kind = "multiMethodHandler" -> multiMethodHandler(h.path, r)
      [] h.kind = "HealthHandler" -> {HealthHandler(r)}
      [] OTHER -> {Response("GraphQL", 0, EmptyMap, << >>, 0, << >>)}

\* rt.mux.ServeHTTP(w, r): the most specific matching pattern wins
MuxServeHTTP(r) ==
    LET cands == {p \in DOMAIN mux : MuxMatches(p, r.Path)}
        best == CHOOSE p \in cands : \A q \in cands : Len(q) <= Len(p)
        exact == cands # {} /\ best = r.Path
    IN IF (~exact) /\ (~HasSuffix(r.Path, <<"/">>))
             /\ (r.Path \o <<"/">>) \in DOMAIN mux
       THEN {MuxRedirect(r.Path)}
       ELSE IF cands = {} THEN {MuxNotFound}
       ELSE RunHandler(mux[best], r)

\* rt.findMatchingPattern(r); the empty sequence is the Go empty string
findMatchingPattern(r) ==
    IF r.Path = HealthPath THEN HealthPath
    ELSE IF hasGraphQL /\ r.Path = graphqlPath THEN graphqlPath
    ELSE LET hits == {i \in 1..Len(endpoints) :
                         matchesPattern(endpoints[i].Path, r.Path)}
         IN IF hits = {} THEN << >>
            ELSE endpoints[CHOOSE i \in hits : \A j \in hits : i <= j].Path

\* mutant: the mux is not wrapped, every request goes to it
RouterHandler_Unwrapped(r) == MuxServeHTTP(r)

\* mutant: the request is handed to the handler of the pattern that
\* findMatchingPattern returned
RouterHandler_FirstMatch(r) ==
    LET pattern == findMatchingPattern(r) IN
    IF pattern = << >> THEN {NotFoundHandler(r)}
    ELSE IF pattern \in DOMAIN mux THEN RunHandler(mux[pattern], r)
    ELSE {MuxNotFound}

\* rt.Handler().ServeHTTP(w, r)
RouterHandler(r) ==
    IF findMatchingPattern(r) # << >>
    THEN MuxServeHTTP(r)
    ELSE {NotFoundHandler(r)}

(***************************************************************************)
(* router.go: registration side                                            *)
(***************************************************************************)
EmptyPathError == "endpoint path cannot be empty"

Call(op, endpoint, path, req, err) ==
    [op |-> op, endpoint |-> endpoint, path |-> path, req |-> req, err |-> err]

NoCall == Call("New", << >>, << >>, << >>, "")

\* mux.HandleFunc panics on an empty pattern and on a pattern that is
\* already registered
HandleFuncPanics(pattern) == pattern = << >> \/ pattern \in DOMAIN mux

MuxHandler(kind, path) == [kind |-> kind, path |-> path]

\* the validation of RegisterEndpoint
\* mutant: no validation
EmptyPath_Unchecked(endpoint) == FALSE

EmptyPath(endpoint) == endpoint.Path = << >>

\* mutant: the default is applied but the method is stored as given
NormalizeMethod_AsGiven(method) == IF method = << >> THEN GET ELSE method

\* the method RegisterEndpoint stores the descriptor under
NormalizeMethod(method) == ToUpper(IF method = << >> THEN GET ELSE method)

\* mutant: the inner map is replaced by one holding only the new method
StoreEndpoint_ReplaceMap(table, endpoint) ==
    MapPut(table, endpoint.Path,
           MapPut(EmptyMap, endpoint.Method, endpoint))

\* mutant: a (path, method) pair that is already stored is kept
StoreEndpoint_KeepFirst(table, endpoint) ==
    IF endpoint.Method \in DOMAIN table[endpoint.Path] THEN table
    ELSE MapPut(table, endpoint.Path,
                MapPut(table[endpoint.Path], endpoint.Method, endpoint))

\* rt.pathMethods[endpoint.Path][endpoint.Method] = endpoint
StoreEndpoint(table, endpoint) ==
    MapPut(table, endpoint.Path,
           MapPut(table[endpoint.Path], endpoint.Method, endpoint))

\* no call of Handler is being studied
HandlerIdle == hIn = << >> /\ hOut = NoResponse

\* no GraphQL handler and no type function is being studied
TypesIdle == tIn = << >> /\ tOut = << >>

\* no configuration is being loaded
LoaderIdle == files = << >> /\ loader = << >>

GraphQLHandlerIdle ==
    /\ gqlConfig = << >> /\ gqlSchema = << >> /\ gqlCall = << >>
    /\ gqlLog = << >> /\ gqlPassed = << >> /\ gqlResp = << >>

GraphQLIdle ==
    /\ TypesIdle
    /\ GraphQLHandlerIdle
    /\ LoaderIdle

\* no server is running
ServeIdle == cfg = << >> /\ conns = << >>

\* no evaluation of matchesPattern is being studied
MatchIdle == mpIn = << << >>, << >> >> /\ mpOut = [done |-> FALSE, result |-> FALSE]

\* router.New() with no call made yet
RouterIdle ==
    /\ mux = EmptyMap
    /\ endpoints = << >>
    /\ pathMethods = EmptyMap
    /\ graphqlPath = << >>
    /\ hasGraphQL = FALSE
    /\ panicked = FALSE
    /\ lastCall = NoCall
    /\ resp = NoResponse

\* router.New()
Init ==
    /\ mux = EmptyMap
    /\ endpoints = << >>
    /\ pathMethods = EmptyMap
    /\ graphqlPath = << >>
    /\ hasGraphQL = FALSE
    /\ panicked = FALSE
    /\ lastCall = NoCall
    /\ resp = NoResponse
    /\ mpIn = << << >>, << >> >>
    /\ mpOut = [done |-> FALSE, result |-> FALSE]
    /\ HandlerIdle
    /\ ServeIdle
    /\ GraphQLIdle

\* rt.RegisterEndpoint(input)
RegisterEndpoint(input) ==
    /\ ~panicked
    /\ Len(endpoints) < MaxEndpoints
    /\ resp' = NoResponse
    /\ UNCHANGED <<graphqlPath, hasGraphQL, otherVars>>
    /\ IF EmptyPath(input)
       THEN /\ lastCall' = Call("RegisterEndpoint", <<input>>, << >>, << >>,
                                EmptyPathError)
            /\ UNCHANGED <<mux, endpoints, pathMethods, panicked>>
       ELSE LET endpoint == [input EXCEPT !.Method = NormalizeMethod(input.Method)]
                first == endpoint.Path \notin DOMAIN pathMethods
                table == IF first
                         THEN MapPut(pathMethods, endpoint.Path, EmptyMap)
                         ELSE pathMethods
            IN /\ lastCall' = Call("RegisterEndpoint", <<input>>, << >>, << >>, "")
               /\ IF first /\ HandleFuncPanics(endpoint.Path)
                  THEN /\ pathMethods' = table
                       /\ panicked' = TRUE
                       /\ UNCHANGED <<mux, endpoints>>
                  ELSE /\ mux' = IF first
                                 THEN MapPut(mux, endpoint.Path,
                                             MuxHandler("multiMethodHandler",
                                                        endpoint.Path))
                                 ELSE mux
                       /\ pathMethods' = StoreEndpoint(table, endpoint)
                       /\ endpoints' = Append(endpoints, endpoint)
                       /\ UNCHANGED panicked

\* rt.RegisterHealthCheck()
RegisterHealthCheck ==
    /\ ~panicked
    /\ resp' = NoResponse
    /\ lastCall' = Call("RegisterHealthCheck", << >>, << >>, << >>, "")
    /\ UNCHANGED <<endpoints, pathMethods, graphqlPath, hasGraphQL, otherVars>>
    /\ IF HandleFuncPanics(HealthPath)
       THEN panicked' = TRUE /\ UNCHANGED mux
       ELSE /\ mux' = MapPut(mux, HealthPath, MuxHandler("HealthHandler", << >>))
            /\ UNCHANGED panicked

\* rt.RegisterGraphQL(input, handler); runServer calls it at most once
RegisterGraphQL(input) ==
    LET path == IF input = << >> THEN DefaultGraphQLPath ELSE input IN
    /\ ~panicked
    /\ ~hasGraphQL
    /\ resp' = NoResponse
    /\ lastCall' = Call("RegisterGraphQL", << >>, input, << >>, "")
    /\ graphqlPath' = path
    /\ hasGraphQL' = TRUE
    /\ UNCHANGED <<endpoints, pathMethods, otherVars>>
    /\ IF HandleFuncPanics(path)
       THEN panicked' = TRUE /\ UNCHANGED mux
       ELSE /\ mux' = MapPut(mux, path, MuxHandler("GraphQL", << >>))
            /\ UNCHANGED panicked

\* one request served by rt.Handler()
ServeHTTP(r) ==
    /\ ~panicked
    /\ lastCall' = Call("ServeHTTP", << >>, << >>, <<r>>, "")
    /\ resp' \in RouterHandler(r)
    /\ UNCHANGED <<routerVars, panicked, otherVars>>

Next ==
    \/ \E input \in EndpointInputs : RegisterEndpoint(input)
    \/ RegisterHealthCheck
    \/ \E input \in GraphQLPathInputs : RegisterGraphQL(input)
    \/ \E r \in Requests : ServeHTTP(r)

Spec == Init /\ [][Next]_vars

(***************************************************************************)
(* matchesPattern as a function of its two arguments                       *)
(***************************************************************************)
PathAtoms == {"/", "api", "users"}

PathUniverse ==
    UNION {[1..n -> PathAtoms] : n \in 0..MaxLen}
        \cup {<<"/", "api", "/", "users", "/", "123">>,
              <<"/", "api", "/", "products">>}

InitMatch ==
    /\ mux = EmptyMap
    /\ endpoints = << >>
    /\ pathMethods = EmptyMap
    /\ graphqlPath = << >>
    /\ hasGraphQL = FALSE
    /\ panicked = FALSE
    /\ lastCall = NoCall
    /\ resp = NoResponse
    /\ mpIn \in PathUniverse \X PathUniverse
    /\ mpOut = [done |-> FALSE, result |-> FALSE]
    /\ HandlerIdle
    /\ ServeIdle
    /\ GraphQLIdle

Match ==
    /\ ~mpOut.done
    /\ mpOut' = [done |-> TRUE, result |-> matchesPattern(mpIn[1], mpIn[2])]
    /\ UNCHANGED <<routerVars, panicked, lastCall, resp, mpIn, handlerVars, serveVars,
                   typeVars, gqlVars, loadVars>>

NextMatch == Match

SpecMatch == InitMatch /\ [][NextMatch]_vars

(***************************************************************************)
(* Handler(endpoint)(w, r) as a function of the descriptor and the request *)
(***************************************************************************)
MaxTemplateLen == 2

TemplateAtoms ==
    {"a", "{{path}}", "{{method}}", "{{query.x}}", "{{query.y}}", "{{body}}"}

Templates == UNION {[1..n -> TemplateAtoms] : n \in 0..MaxTemplateLen}

TemplatePath == <<"/", "t">>

HeaderInputs ==
    { EmptyMap,
      [k \in {"Content-Type"} |-> <<"text/plain">>],
      [k \in {"content-type"} |-> <<"text/html">>],
      [k \in {"Content-Type"} |-> << >>],
      [k \in {"X-Custom-Header"} |-> <<"custom-value">>],
      [k \in {"Content-Type", "content-type"} |->
          IF k = "Content-Type" THEN <<"text/plain">> ELSE << >>] }

StatusInputs == {0, 201, -1}

HandlerDescriptors ==
    { EndpointConfig(TemplatePath, GET, 0, t, EmptyMap, 0) : t \in Templates }
      \cup { EndpointConfig(TemplatePath, GET, st, PlainTemplate, h, 0) :
                st \in StatusInputs, h \in HeaderInputs }
      \cup { EndpointConfig(TemplatePath, GET, 200, PlainTemplate, EmptyMap, d) :
                d \in {100, -5} }

\* request paths, the second one holding the text of a token
HandlerPaths == {TemplatePath, <<"/", "{{method}}">>}

HandlerMethods == {GET, POST, PUT, PATCH, DELETE}

\* r.URL.Query(): no parameter, x with two values, x whose value holds the
\* text of the token of y, x whose value holds the text of the body token
HandlerQueries ==
    { EmptyMap,
      [k \in {"x"} |-> << <<"1">>, <<"2">> >>],
      [k \in {"x", "y"} |->
          IF k = "x" THEN << <<"{{query.y}}">> >> ELSE << <<"2">> >>],
      [k \in {"x"} |-> << <<"{{body}}">> >>] }

\* r.Body: absent, valid JSON with insignificant whitespace, invalid JSON
HandlerBodies ==
    { << >>, <<"{", " ", "\"a\"", ":", " ", "1", "}">>, <<"{", "\"a\"">> }

HandlerRequests ==
    { Request(p, m, q, b) : p \in HandlerPaths, m \in HandlerMethods,
                            q \in HandlerQueries, b \in HandlerBodies }

InitHandler ==
    /\ RouterIdle
    /\ MatchIdle
    /\ hIn \in [endpoint : HandlerDescriptors, req : HandlerRequests]
    /\ hOut = NoResponse
    /\ ServeIdle
    /\ GraphQLIdle

\* one call of the closure Handler(endpoint) returns
CallHandler ==
    /\ hOut.kind = "none"
    /\ hOut' \in Handler(hIn.endpoint, hIn.req)
    /\ UNCHANGED <<routerVars, panicked, lastCall, resp, matchVars, hIn, serveVars,
                   typeVars, gqlVars, loadVars>>

NextHandler == CallHandler

SpecHandler == InitHandler /\ [][NextHandler]_vars

(***************************************************************************)
(* The running server: runServer registers the configured endpoints, then  *)
(* net/http serves every request in a goroutine of its own; a request to   *)
(* an endpoint goes through the statements of the Handler closure one by   *)
(* one                                                                     *)
(***************************************************************************)
MaxConns == 2

Conns == 1..MaxConns

\* mutant: the delay is taken after the response has been written
HandlerSteps_SleepLast == <<"headers", "status", "body", "sleep">>

\* the statements of the Handler closure in program order: time.Sleep, the
\* header loop with the Content-Type default, WriteHeader, Write
HandlerSteps == <<"sleep", "headers", "status", "body">>

\* the statements executed for a descriptor: the sleep only for a delay > 0
StepsOf(endpoint) ==
    IF endpoint.Delay > 0 THEN HandlerSteps
    ELSE SelectSeq(HandlerSteps, LAMBDA st : st # "sleep")

\* a request not yet accepted
IdleConn ==
    [pc |-> "idle", req |-> << >>, endpoint |-> << >>, did |-> << >>,
     out |-> NoResponse, during |-> {}]

\* the goroutine of c is inside time.Sleep
Sleeping(c) ==
    /\ conns[c].pc = "running"
    /\ StepsOf(conns[c].endpoint[1])[Len(conns[c].did) + 1] = "sleep"

\* mutant: a request inside its delay holds up every other request
Runnable_Serialized(c) == \A o \in Conns \ {c} : ~Sleeping(o)

\* the goroutine of c can run: the handlers take no lock and wait for
\* nothing but their own time.Sleep
Runnable(c) == TRUE

\* cfg.Endpoints of the configurations the server is started with
ServeConfigs ==
    { <<Endpoint(ApiUsers, GET, Created), Endpoint(ApiUsers, POST, UnsetStatus)>>,
      <<EndpointConfig(ApiDir, GET, 200, PlainTemplate, EmptyMap, -5),
        Endpoint(ApiUsers, GET, NegativeStatus)>> }

ServeRequests ==
    { Request(pm[1], pm[2], RequestQuery(pm[2]), RequestBody(pm[2])) :
        pm \in { <<ApiUsers, GET>>, <<ApiUsers, POST>>, <<ApiDir, GET>>,
                 <<HealthPath, GET>>, <<<<"/", "other">>, GET>> } }

InitServe ==
    /\ RouterIdle
    /\ MatchIdle
    /\ HandlerIdle
    /\ cfg \in ServeConfigs
    /\ conns = [c \in Conns |-> IdleConn]
    /\ GraphQLIdle

\* runServer: rt.RegisterHealthCheck()
SetupHealthCheck ==
    /\ cfg # << >>
    /\ HealthPath \notin DOMAIN mux
    /\ RegisterHealthCheck

\* runServer: rt.RegisterEndpoints(cfg.Endpoints), one iteration of its loop
SetupEndpoints ==
    /\ cfg # << >>
    /\ HealthPath \in DOMAIN mux
    /\ Len(endpoints) < Len(cfg)
    /\ RegisterEndpoint(cfg[Len(endpoints) + 1])

\* runServer has reached srv.ListenAndServe()
Serving ==
    /\ cfg # << >>
    /\ ~panicked
    /\ HealthPath \in DOMAIN mux
    /\ Len(endpoints) = Len(cfg)

\* mutant: a descriptor is served once, the lookup takes it out of the table
TableAfterLookup_Consumed(table, r) ==
    IF r.Path \in DOMAIN table /\ r.Method \in DOMAIN table[r.Path]
    THEN [table EXCEPT ![r.Path] =
             [m \in DOMAIN table[r.Path] \ {r.Method} |-> table[r.Path][m]]]
    ELSE table

\* rt.pathMethods after the dispatch of r: findMatchingPattern ranges over
\* rt.endpoints and multiMethodHandler reads rt.pathMethods[path] and
\* methodMap[r.Method]; none of them writes
TableAfterLookup(table, r) == table

\* the server accepts request r on c and rt.Handler() dispatches it: to the
\* closure of an endpoint, which then runs statement by statement, or to a
\* handler that answers at once
StartRequest(c, r) ==
    /\ Serving
    /\ conns[c].pc = "idle"
    /\ Runnable(c)
    /\ \E o \in RouterHandler(r) :
           conns' = [conns EXCEPT ![c] =
               IF o.endpoint # << >>
               THEN [pc |-> "running", req |-> <<r>>, endpoint |-> o.endpoint,
                     did |-> << >>,
                     out |-> Response("pending", 0, EmptyMap, << >>, 0,
                                      o.endpoint),
                     during |-> {x \in Conns : Sleeping(x)}]
               ELSE [pc |-> "done", req |-> <<r>>, endpoint |-> << >>,
                     did |-> << >>, out |-> o,
                     during |-> {x \in Conns : Sleeping(x)}]]
    /\ pathMethods' = TableAfterLookup(pathMethods, r)
    /\ UNCHANGED <<mux, endpoints, graphqlPath, hasGraphQL, panicked, lastCall,
                   resp, matchVars, handlerVars, cfg, typeVars, gqlVars,
                   loadVars>>

\* the goroutine of c executes the next statement of the Handler closure
StepRequest(c) ==
    /\ conns[c].pc = "running"
    /\ Runnable(c)
    /\ LET k == conns[c]
           d == k.endpoint[1]
           r == k.req[1]
           step == StepsOf(d)[Len(k.did) + 1]
           last == Len(k.did) + 1 = Len(StepsOf(d))
           panics == step = "status" /\ ~ValidWriteHeaderCode(HandlerStatus(d))
       IN \E horder \in Orders(DOMAIN d.Headers),
             qorder \in Orders(DOMAIN r.Query) :
           LET out1 ==
                 CASE step = "sleep" -> [k.out EXCEPT !.slept = d.Delay]
                   [] step = "headers" ->
                        [k.out EXCEPT !.headers = HandlerHeaders(d, horder)]
                   [] step = "status" ->
                        [k.out EXCEPT !.status = HandlerStatus(d)]
                   [] OTHER ->
                        [k.out EXCEPT !.kind = "Handler",
                            !.body = processResponse(d.Response, r, qorder)]
           IN conns' = [conns EXCEPT ![c] =
                 IF panics
                 THEN [k EXCEPT !.pc = "panic", !.did = Append(@, step),
                          !.out = Response("panic", 0, EmptyMap, << >>,
                                           k.out.slept, <<d>>)]
                 ELSE [k EXCEPT !.pc = IF last THEN "done" ELSE "running",
                          !.did = Append(@, step), !.out = out1]]
    /\ UNCHANGED <<routerVars, panicked, lastCall, resp, matchVars,
                   handlerVars, cfg, typeVars, gqlVars, loadVars>>

NextServe ==
    \/ SetupHealthCheck
    \/ SetupEndpoints
    \/ \E c \in Conns, r \in ServeRequests : StartRequest(c, r)
    \/ \E c \in Conns : StepRequest(c)

SpecServe == InitServe /\ [][NextServe]_vars

(***************************************************************************)
(* graphql: type signatures.  A signature is a sequence of atoms: "[", "]",*)
(* "!" and names                                                           *)
(***************************************************************************)
MaxSigLen == 3

\* graphql.String, graphql.Int, ...; an object type of the registry;
\* graphql.NewList and graphql.NewNonNull
Scalar(name) == [kind |-> "Scalar", name |-> name, of |-> << >>]

Object(name) == [kind |-> "Object", name |-> name, of |-> << >>]

NewList(t) == [kind |-> "List", name |-> "", of |-> <<t>>]

NewNonNull(t) == [kind |-> "NonNull", name |-> "", of |-> <<t>>]

\* len(typeStr): the number of characters of the signature
RECURSIVE ByteLen(_)
ByteLen(t) == IF t = << >> THEN 0 ELSE Len(Head(t)) + ByteLen(Tail(t))

\* the signature is longer than two characters and wrapped in [ ]
Bracketed(t) == ByteLen(t) > 2 /\ t[1] = "[" /\ t[Len(t)] = "]"

\* the switch of parseType on the base name
BaseType(t) ==
    CASE t = <<"String">> -> Scalar("String")
      [] t = <<"Int">> -> Scalar("Int")
      [] t = <<"Float">> -> Scalar("Float")
      [] t = <<"Boolean">> -> Scalar("Boolean")
      [] t = <<"ID">> -> Scalar("ID")
      [] OTHER -> Scalar("String")

\* mutant: any signature wrapped in [ ] is a list, whatever its length
parseType_AnyBrackets(typeStr) ==
    LET isNonNull == Len(typeStr) > 0 /\ typeStr[Len(typeStr)] = "!"
        t1 == IF isNonNull THEN SubSeq(typeStr, 1, Len(typeStr) - 1)
              ELSE typeStr
        isList == Len(t1) > 1 /\ t1[1] = "[" /\ t1[Len(t1)] = "]"
        t2 == IF isList THEN SubSeq(t1, 2, Len(t1) - 1) ELSE t1
        baseType == IF isList THEN NewList(BaseType(t2)) ELSE BaseType(t2)
    IN IF isNonNull THEN NewNonNull(baseType) ELSE baseType

\* h.parseType(typeStr)
parseType(typeStr) ==
    LET isNonNull == Len(typeStr) > 0 /\ typeStr[Len(typeStr)] = "!"
        t1 == IF isNonNull THEN SubSeq(typeStr, 1, Len(typeStr) - 1)
              ELSE typeStr
        isList == Bracketed(t1)
        t2 == IF isList THEN SubSeq(t1, 2, Len(t1) - 1) ELSE t1
        baseType == IF isList THEN NewList(BaseType(t2)) ELSE BaseType(t2)
    IN IF isNonNull THEN NewNonNull(baseType) ELSE baseType

\* h.resolveType(typeName, types); types is the set of the registry's keys.
\* The inner result is never nil, so a bracketed name always gives a list
RECURSIVE resolveType(_, _)
resolveType(typeName, types) ==
    IF typeName \in {<<n>> : n \in types} THEN Object(typeName[1])
    ELSE IF Bracketed(typeName)
    THEN NewList(resolveType(SubSeq(typeName, 2, Len(typeName) - 1), types))
    ELSE parseType(typeName)

SigAtoms == {"[", "]", "!", "String", "Int", "User"}

TypeSigs ==
    UNION {[1..n -> SigAtoms] : n \in 0..MaxSigLen}
        \cup { <<"Float">>, <<"Boolean">>, <<"ID">>,
               <<"[", "String", "]", "!">>, <<"[", "User", "]", "!">>,
               <<"[", "User", "!", "]">>, <<"[", "[", "User", "]", "]">> }

\* the keys of the registry buildSchema passes to resolveType
TypeRegistries == {{}, {"User"}}

NoTypeCall == [op |-> "none", result |-> Scalar("")]

InitTypes ==
    /\ RouterIdle
    /\ MatchIdle
    /\ HandlerIdle
    /\ ServeIdle
    /\ tIn \in [sig : TypeSigs, types : TypeRegistries]
    /\ tOut = NoTypeCall
    /\ GraphQLHandlerIdle
    /\ LoaderIdle

ParseType ==
    /\ tOut.op = "none"
    /\ tOut' = [op |-> "parseType", result |-> parseType(tIn.sig)]
    /\ UNCHANGED <<routerVars, panicked, lastCall, resp, matchVars,
                   handlerVars, serveVars, tIn, gqlVars, loadVars>>

ResolveType ==
    /\ tOut.op = "none"
    /\ tOut' = [op |-> "resolveType",
                result |-> resolveType(tIn.sig, tIn.types)]
    /\ UNCHANGED <<routerVars, panicked, lastCall, resp, matchVars,
                   handlerVars, serveVars, tIn, gqlVars, loadVars>>

NextTypes == ParseType \/ ResolveType

SpecTypes == InitTypes /\ [][NextTypes]_vars

(***************************************************************************)
(* graphql: New, buildSchema and the resolvers                             *)
(***************************************************************************)
MaxFields == 1

\* models.GraphQLType, models.GraphQLQuery / GraphQLMutation, GraphQLConfig
GraphQLType(name, fields) == [Name |-> name, Fields |-> fields]

GraphQLQuery(name, returnType, args, response) ==
    [Name |-> name, ReturnType |-> returnType, Args |-> args,
     Response |-> response]

GraphQLConfig(enabled, types, queries, mutations) ==
    [Enabled |-> enabled, Types |-> types, Queries |-> queries,
     Mutations |-> mutations]

\* the kind of value a valid JSON text holds
JSONKind(t) ==
    CASE t[1] = "{" -> "object"
      [] t[1] = "[" -> "array"
      [] IsJSONString(t[1]) -> "string"
      [] t[1] \in {"true", "false"} -> "boolean"
      [] t[1] = "null" -> "null"
      [] OTHER -> "number"

\* json.Unmarshal of a valid text into interface{}: the value, given by
\* its kind and its tokens without the insignificant whitespace
JSONDecode(b) == [kind |-> JSONKind(StripWS(b)), tokens |-> StripWS(b)]

\* h.createResolver(responseJSON): a closure that holds the text
createResolver(responseJSON) == [responseJSON |-> responseJSON]

\* mutant: a text that does not parse is answered with nil and no error
ResolverCall_NilWithoutError(resolver, p) ==
    IF JSONValid(resolver.responseJSON)
    THEN [result |-> <<JSONDecode(resolver.responseJSON)>>, err |-> ""]
    ELSE [result |-> << >>, err |-> ""]

\* the closure of createResolver called with the parameters p
ResolverCall(resolver, p) ==
    IF JSONValid(resolver.responseJSON)
    THEN [result |-> <<JSONDecode(resolver.responseJSON)>>, err |-> ""]
    ELSE [result |-> << >>, err |-> "invalid response JSON"]

\* the nil graphql.Output
NilType == [kind |-> "nil", name |-> "", of |-> << >>]

\* the return type buildSchema gives a field: String when resolveType
\* returned nil
FieldReturnType(q, types) ==
    LET returnType == resolveType(q.ReturnType, types)
    IN IF returnType = NilType THEN Scalar("String") ELSE returnType

\* log.Printf("Warning: Unknown return type '%s' for <root> '%s', using
\* String", ...)
Warning(root, q) == [root |-> root, returnType |-> q.ReturnType, name |-> q.Name]

\* the warnings the loop over the queries or the mutations logs: one for
\* each entry for which resolveType returned nil
Warnings(root, list, types) ==
    LET unknown(q) == resolveType(q.ReturnType, types) = NilType
        hits == SelectSeq(list, unknown)
    IN [i \in 1..Len(hits) |-> Warning(root, hits[i])]

\* the graphql.Field buildSchema makes of a query or mutation
SchemaField(q, types) ==
    [Type |-> FieldReturnType(q, types),
     Args |-> [a \in DOMAIN q.Args |-> parseType(q.Args[a])],
     Resolve |-> createResolver(q.Response)]

\* the loops of buildSchema over the queries and over the mutations
RECURSIVE SchemaFields(_, _)
SchemaFields(list, types) ==
    IF list = << >> THEN EmptyMap
    ELSE LET q == list[Len(list)]
         IN MapPut(SchemaFields(SubSeq(list, 1, Len(list) - 1), types),
                   q.Name, SchemaField(q, types))

\* graphql.NewSchema rejects a root object without fields
NewSchemaError(queryFields) ==
    IF DOMAIN queryFields = {}
    THEN "RootQuery fields must be an object with field names as keys"
    ELSE ""

Schema(built, err, queryFields, mutationFields, hasMutation) ==
    [built |-> built, err |-> err, queryFields |-> queryFields,
     mutationFields |-> mutationFields, hasMutation |-> hasMutation]

NoSchema == Schema(FALSE, "", EmptyMap, EmptyMap, FALSE)

\* graphql.SchemaConfig: Query and Mutation point to root objects, given
\* by their fields; << >> is nil
SchemaConfig(query, mutation) == [Query |-> query, Mutation |-> mutation]

\* mutant: the root mutation object is made and passed whatever the number
\* of mutations
schemaConfig_AlwaysMutation(config) ==
    LET types == {config.Types[i].Name : i \in 1..Len(config.Types)}
    IN SchemaConfig(<<SchemaFields(config.Queries, types)>>,
                    <<SchemaFields(config.Mutations, types)>>)

\* the schemaConfig h.buildSchema() passes to graphql.NewSchema
schemaConfig(config) ==
    LET types == {config.Types[i].Name : i \in 1..Len(config.Types)}
        rootQuery == <<SchemaFields(config.Queries, types)>>
        rootMutation == IF Len(config.Mutations) > 0
                        THEN <<SchemaFields(config.Mutations, types)>>
                        ELSE << >>
    IN SchemaConfig(rootQuery, rootMutation)

\* h.buildSchema()
buildSchema(config) ==
    LET passed == schemaConfig(config)
        queryFields == passed.Query[1]
        hasMutation == passed.Mutation # << >>
        mutationFields == IF hasMutation THEN passed.Mutation[1] ELSE EmptyMap
        err == NewSchemaError(queryFields)
    IN IF err # "" THEN Schema(TRUE, err, EmptyMap, EmptyMap, FALSE)
       ELSE Schema(TRUE, "", queryFields, mutationFields, hasMutation)

\* what h.buildSchema() writes to the log
buildSchemaLog(config) ==
    LET types == {config.Types[i].Name : i \in 1..Len(config.Types)}
    IN Warnings("query", config.Queries, types)
           \o (IF Len(config.Mutations) > 0
               THEN Warnings("mutation", config.Mutations, types)
               ELSE << >>)

\* graphql.New(config)
NewHandler(config) ==
    IF ~config.Enabled
    THEN Schema(TRUE, "GraphQL is not enabled", EmptyMap, EmptyMap, FALSE)
    ELSE buildSchema(config)

\* what graphql.New(config) writes to the log
NewHandlerLog(config) ==
    IF ~config.Enabled THEN << >> ELSE buildSchemaLog(config)

UserType == GraphQLType("User", [f \in {"id", "name"} |->
                                    IF f = "id" THEN <<"ID", "!">>
                                    ELSE <<"String">>])

ReturnTypeInputs ==
    { <<"String">>, <<"[", "User", "]">>, <<"User", "!">>, <<"Post">> }

\* the response texts of the configuration: an object, an array, a string,
\* a number, a boolean, null, and two texts that are not JSON
ResponseInputs ==
    { <<"{", " ", "\"a\"", ":", " ", "1", "}">>, <<"[", "1", "]">>,
      <<"\"a\"">>, <<"1">>, <<"true">>, <<"null">>,
      <<"{", "invalid", "}">>, << >> }

FieldNames == <<"q1", "q2", "q3">>

FieldArgs == [a \in {"id"} |-> <<"ID", "!">>]

\* lists of queries, named by their position
QueryLists ==
    UNION { { [i \in 1..n |->
                 GraphQLQuery(FieldNames[i], f[i][1], FieldArgs, f[i][2])] :
              f \in [1..n -> ReturnTypeInputs \X ResponseInputs] } :
            n \in 0..MaxFields }

MutationLists ==
    { << >> } \cup
    { <<GraphQLQuery("m1", <<"User">>, FieldArgs, response)>> :
        response \in { <<"{", "\"a\"", ":", "1", "}">>, <<"{", "invalid", "}">> } }

GraphQLConfigs ==
    { GraphQLConfig(e, t, q, m) :
        e \in BOOLEAN, t \in { << >>, <<UserType>> },
        q \in QueryLists, m \in MutationLists }

\* the arguments a resolver is called with
ResolveParams == { EmptyMap, [a \in {"id"} |-> <<"1">>] }

ResolverCalled(root, name, p, out) ==
    [root |-> root, name |-> name, p |-> p, out |-> out]

NoResolverCall ==
    ResolverCalled("none", "", EmptyMap, [result |-> << >>, err |-> ""])

(***************************************************************************)
(* graphql.Handler.ServeHTTP: the body is decoded by a json.Decoder, the    *)
(* document is executed by graphql.Do and the result is encoded. A request *)
(* body is a text of whitespace atoms and JSON tokens; its documents select *)
(* one field of the root query or of the root mutation                      *)
(***************************************************************************)
Q1Doc == "\"{ q1(id: 1) }\""

M1Doc == "\"mutation { m1(id: 1) }\""

OtherDoc == "\"{ other }\""

EmptyDoc == "\"\""

\* the JSON strings of the request bodies
IsRequestString(a) ==
    a \in {"\"query\"", "\"Query\"", "\"variables\"", "\"a\"",
           Q1Doc, M1Doc, OtherDoc, EmptyDoc}

IsRequestScalar(a) == IsRequestString(a) \/ a \in {"1", "true", "false", "null"}

\* json.Decoder.readValue: the number of tokens of the first JSON value of
\* the stream, 0 when the stream does not start with a complete value; what
\* follows the value is left unread
FirstValueLen(t) ==
    IF t = << >> THEN 0
    ELSE IF IsRequestScalar(t[1]) THEN 1
    ELSE IF Len(t) >= 2 /\ t[1] = "{" /\ t[2] = "}" THEN 2
    ELSE IF Len(t) >= 2 /\ t[1] = "[" /\ t[2] = "]" THEN 2
    ELSE IF Len(t) >= 3 /\ t[1] = "[" /\ IsRequestScalar(t[2]) /\ t[3] = "]"
    THEN 3
    ELSE IF /\ Len(t) >= 5
            /\ t[1] = "{" /\ IsRequestString(t[2]) /\ t[3] = ":"
            /\ IsRequestScalar(t[4]) /\ t[5] = "}"
    THEN 5
    ELSE 0

\* the params struct after a decoding; Query holds the document as a JSON
\* string
Params(err, query) == [err |-> err, Query |-> query]

\* json.NewDecoder(r.Body).Decode(&params): the first value of the stream
\* is decoded into the struct; null leaves it zero, any other value that is
\* not an object is a type error, keys are matched without regard to case,
\* unknown keys are skipped, a null member leaves its field zero
DecodeParams(body) ==
    LET t == StripWS(body)
        n == FirstValueLen(t)
    IN IF t = << >> THEN Params("EOF", EmptyDoc)
       ELSE IF n = 0 THEN Params("invalid character", EmptyDoc)
       ELSE IF t[1] = "null" THEN Params("", EmptyDoc)
       ELSE IF t[1] # "{"
       THEN Params("json: cannot unmarshal into Go value of type struct",
                   EmptyDoc)
       ELSE IF n = 2 THEN Params("", EmptyDoc)
       ELSE IF t[2] \in {"\"query\"", "\"Query\""}
       THEN IF IsRequestString(t[4]) THEN Params("", t[4])
            ELSE IF t[4] = "null" THEN Params("", EmptyDoc)
            ELSE Params("json: cannot unmarshal into Go struct field .query of type string",
                        EmptyDoc)
       ELSE IF t[2] = "\"variables\"" /\ t[4] # "null"
       THEN Params("json: cannot unmarshal into Go struct field .variables of type map[string]interface {}",
                   EmptyDoc)
       ELSE Params("", EmptyDoc)

\* the root and the field a document selects
Document(requestString) ==
    CASE requestString = Q1Doc -> [root |-> "query", name |-> "q1"]
      [] requestString = M1Doc -> [root |-> "mutation", name |-> "m1"]
      [] requestString = OtherDoc -> [root |-> "query", name |-> "other"]
      [] OTHER -> [root |-> "none", name |-> ""]

\* graphql.Result
Result(data, errors) == [data |-> data, errors |-> errors]

\* graphql.Do: a document without an operation and a field the schema does
\* not have give errors and no data; else the field's resolver is called
\* and its error is reported in errors. The engine validates the document
\* and completes the resolved value against the field's type and the
\* document's selection, which the documents above do not detail: each of
\* these checks may pass or fail. A nil value without an error completes
\* to null
GraphQLDo(schema, requestString) ==
    LET d == Document(requestString)
        fields == IF d.root = "query" THEN schema.queryFields
                  ELSE IF d.root = "mutation" /\ schema.hasMutation
                  THEN schema.mutationFields
                  ELSE EmptyMap
    IN IF d.root = "none" THEN {Result(<<"null">>, <<"no operation">>)}
       ELSE IF d.name \notin DOMAIN fields
       THEN {Result(<<"null">>, <<"validation">>)}
       ELSE LET out == ResolverCall(fields[d.name].Resolve, EmptyMap)
            IN {Result(<<"null">>, <<"validation">>)} \cup
               (IF out.err # ""
                THEN {Result(<<"{\"", d.name, "\":", "null", "}">>, <<out.err>>)}
                ELSE {Result(<<"{\"", d.name, "\":">>
                                 \o (IF out.result = << >> THEN <<"null">>
                                     ELSE out.result[1].tokens)
                                 \o <<"}">>, << >>),
                      Result(<<"{\"", d.name, "\":", "null", "}">>,
                             <<"completion">>)})

\* json.NewEncoder(w).Encode(result): errors is omitted when empty
EncodeResult(res) ==
    <<"{\"data\":">> \o res.data
        \o (IF res.errors = << >> THEN << >>
            ELSE <<",\"errors\":[">> \o res.errors \o <<"]">>)
        \o <<"}", "\n">>

\* json.NewEncoder(w).Encode(map[string]string{"error": ...})
EncodeError(detail) == <<"{\"error\":\"">> \o detail \o <<"\"}", "\n">>

\* one exchange: the response and whether r.Body was read
Exchange(response, bodyRead) == [resp |-> response, bodyRead |-> bodyRead]

\* h.ServeHTTP(w, r)
GraphQLServeHTTP(schema, r) ==
    LET headers == HeaderSet(EmptyMap, "Content-Type", JSONContentType)
    IN IF r.Method # POST
       THEN {Exchange(Response("GraphQL", 405, headers,
                 EncodeError(<<"GraphQL endpoint only accepts POST requests">>),
                 0, << >>), FALSE)}
       ELSE LET params == DecodeParams(r.Body)
            IN IF params.err # ""
               THEN {Exchange(Response("GraphQL", 400, headers,
                                  EncodeError(<<"invalid request body: ",
                                                params.err>>), 0, << >>), TRUE)}
               ELSE {Exchange(Response("GraphQL", 200, headers,
                                       EncodeResult(res), 0, << >>), TRUE) :
                       res \in GraphQLDo(schema, params.Query)}

\* the bodies of the modelled requests: documents, an empty body, values
\* that are not objects, a member of the wrong type, a text that is cut
\* short, and a complete object followed by more text
GraphQLBodies ==
    { <<"{", "\"query\"", ":", Q1Doc, "}">>,
      <<"{", " ", "\"Query\"", ":", " ", M1Doc, "}">>,
      <<"{", "\"query\"", ":", OtherDoc, "}">>,
      <<"{", "\"a\"", ":", "1", "}">>,
      <<"{", "}">>, <<"null">>,
      << >>, <<"[", "1", "]">>, <<"\"a\"">>,
      <<"{", "\"query\"", ":", "1", "}">>,
      <<"{", "\"query\"", ":", Q1Doc>>,
      <<"{", "\"query\"", ":", Q1Doc, "}", "garbage">> }

GraphQLRequests ==
    { Request(DefaultGraphQLPath, POST, EmptyMap, b) : b \in GraphQLBodies }
        \cup { Request(DefaultGraphQLPath, GET, EmptyMap, b) :
                 b \in { << >>, <<"{", "\"query\"", ":", Q1Doc, "}">>,
                         <<"{", "\"query\"", ":", Q1Doc>> } }

NoExchange ==
    [req |-> Request(<< >>, << >>, EmptyMap, << >>), resp |-> NoResponse,
     bodyRead |-> FALSE]

InitGraphQL ==
    /\ RouterIdle
    /\ MatchIdle
    /\ HandlerIdle
    /\ ServeIdle
    /\ TypesIdle
    /\ LoaderIdle
    /\ gqlConfig \in GraphQLConfigs
    /\ gqlSchema = NoSchema
    /\ gqlCall = NoResolverCall
    /\ gqlLog = << >>
    /\ gqlPassed = << >>
    /\ gqlResp = NoExchange

\* graphql.New(config)
New ==
    /\ ~gqlSchema.built
    /\ gqlSchema' = NewHandler(gqlConfig)
    /\ gqlLog' = NewHandlerLog(gqlConfig)
    /\ gqlPassed' = IF gqlConfig.Enabled THEN <<schemaConfig(gqlConfig)>>
                    ELSE << >>
    /\ UNCHANGED <<routerVars, panicked, lastCall, resp, matchVars,
                   handlerVars, serveVars, typeVars, loadVars, gqlConfig,
                   gqlCall, gqlResp>>

\* the executor calls the resolver of a field of the root query
ResolveQuery(name, p) ==
    /\ gqlSchema.built /\ gqlSchema.err = ""
    /\ name \in DOMAIN gqlSchema.queryFields
    /\ gqlCall' = ResolverCalled("query", name, p,
                      ResolverCall(gqlSchema.queryFields[name].Resolve, p))
    /\ UNCHANGED <<routerVars, panicked, lastCall, resp, matchVars,
                   handlerVars, serveVars, typeVars, loadVars, gqlConfig,
                   gqlSchema, gqlLog, gqlPassed, gqlResp>>

\* the executor calls the resolver of a field of the root mutation
ResolveMutation(name, p) ==
    /\ gqlSchema.built /\ gqlSchema.err = ""
    /\ gqlSchema.hasMutation
    /\ name \in DOMAIN gqlSchema.mutationFields
    /\ gqlCall' = ResolverCalled("mutation", name, p,
                      ResolverCall(gqlSchema.mutationFields[name].Resolve, p))
    /\ UNCHANGED <<routerVars, panicked, lastCall, resp, matchVars,
                   handlerVars, serveVars, typeVars, loadVars, gqlConfig,
                   gqlSchema, gqlLog, gqlPassed, gqlResp>>

\* the handler New returned serves one request
HandlerServeHTTP(r) ==
    /\ gqlSchema.built /\ gqlSchema.err = ""
    /\ \E out \in GraphQLServeHTTP(gqlSchema, r) :
           gqlResp' = [req |-> r, resp |-> out.resp, bodyRead |-> out.bodyRead]
    /\ UNCHANGED <<routerVars, panicked, lastCall, resp, matchVars,
                   handlerVars, serveVars, typeVars, loadVars, gqlConfig,
                   gqlSchema, gqlCall, gqlLog, gqlPassed>>

NextGraphQL ==
    \/ New
    \/ \E r \in GraphQLRequests : HandlerServeHTTP(r)
    \/ \E name \in {FieldNames[i] : i \in 1..Len(FieldNames)},
          p \in ResolveParams : ResolveQuery(name, p)
    \/ \E p \in ResolveParams : ResolveMutation("m1", p)

SpecGraphQL == InitGraphQL /\ [][NextGraphQL]_vars

(***************************************************************************)
(* Router.RegisterEndpoints: the loop over a list of descriptors, which    *)
(* returns at the first error; a call is one step                           *)
(***************************************************************************)
MaxList == 3

\* the fields of the Router a registration changes, and whether
\* mux.HandleFunc panicked
RouterState(m, eps, table, pan) ==
    [mux |-> m, endpoints |-> eps, pathMethods |-> table, panicked |-> pan]

\* what a registration call leaves: the router and the returned error
Registration(st, err) == [st |-> st, err |-> err]

\* rt.RegisterEndpoint(input) on the router st
RegisterEndpointOn(st, input) ==
    IF EmptyPath(input) THEN Registration(st, EmptyPathError)
    ELSE LET endpoint == [input EXCEPT !.Method = NormalizeMethod(input.Method)]
             first == endpoint.Path \notin DOMAIN st.pathMethods
             table == IF first
                      THEN MapPut(st.pathMethods, endpoint.Path, EmptyMap)
                      ELSE st.pathMethods
         IN IF first /\ endpoint.Path \in DOMAIN st.mux
            THEN Registration(RouterState(st.mux, st.endpoints, table, TRUE), "")
            ELSE Registration(
                     RouterState(IF first
                                 THEN MapPut(st.mux, endpoint.Path,
                                             MuxHandler("multiMethodHandler",
                                                        endpoint.Path))
                                 ELSE st.mux,
                                 Append(st.endpoints, endpoint),
                                 StoreEndpoint(table, endpoint), FALSE), "")

\* mutant: a descriptor that is refused is skipped and the loop goes on
LoopReturns_OnPanicOnly(out) == out.st.panicked

\* the loop of RegisterEndpoints is left after this call: `return err`, or
\* the panic of mux.HandleFunc
LoopReturns(out) == out.err # "" \/ out.st.panicked

\* rt.RegisterEndpoints(list) on the router st
RECURSIVE RegisterEndpointsOn(_, _)
RegisterEndpointsOn(st, list) ==
    IF list = << >> THEN Registration(st, "")
    ELSE LET out == RegisterEndpointOn(st, Head(list))
         IN IF LoopReturns(out) THEN out
            ELSE RegisterEndpointsOn(out.st, Tail(list))

\* the lists of descriptors a configuration may hold
EndpointLists == UNION {[1..n -> EndpointInputs] : n \in 0..MaxList}

InitRegister ==
    /\ RouterIdle
    /\ MatchIdle
    /\ HandlerIdle
    /\ cfg \in EndpointLists
    /\ conns = << >>
    /\ GraphQLIdle

\* runServer: rt.RegisterEndpoints(cfg.Endpoints)
RegisterEndpoints ==
    /\ ~panicked
    /\ lastCall = NoCall
    /\ LET out == RegisterEndpointsOn(
                      RouterState(mux, endpoints, pathMethods, panicked), cfg)
       IN /\ mux' = out.st.mux
          /\ endpoints' = out.st.endpoints
          /\ pathMethods' = out.st.pathMethods
          /\ panicked' = out.st.panicked
          /\ lastCall' = Call("RegisterEndpoints", cfg, << >>, << >>, out.err)
    /\ UNCHANGED <<graphqlPath, hasGraphQL, resp, otherVars>>

NextRegister == RegisterEndpoints

SpecRegister == InitRegister /\ [][NextRegister]_vars

(***************************************************************************)
(* config.Loader: the files of a directory are parsed and merged one by     *)
(* one; a file is given by its parsed models.Config                         *)
(***************************************************************************)
MaxFiles == 2

\* models.ServerConfig, models.Config; GraphQL is a pointer: << >> is nil
ServerConfig(port, host, readTimeout, writeTimeout) ==
    [Port |-> port, Host |-> host, ReadTimeout |-> readTimeout,
     WriteTimeout |-> writeTimeout]

Config(server, eps, graphql) ==
    [Server |-> server, Endpoints |-> eps, GraphQL |-> graphql]

\* models.GraphQLConfig as the loader sees it, with its path
GraphQLSection(enabled, path, types, queries, mutations) ==
    [Enabled |-> enabled, Path |-> path, Types |-> types,
     Queries |-> queries, Mutations |-> mutations]

\* config.New()
NewLoader ==
    [config |-> Config(ServerConfig(8080, <<"0.0.0.0">>, 15, 15), << >>, << >>),
     loaded |-> 0]

\* the else branch of mergeConfig: both sections exist
MergeGraphQL(old, new) ==
    GraphQLSection(IF new.Enabled THEN TRUE ELSE old.Enabled,
                   IF new.Path # << >> THEN new.Path ELSE old.Path,
                   old.Types \o new.Types, old.Queries \o new.Queries,
                   old.Mutations \o new.Mutations)

\* l.mergeConfig(cfg) on l.config = config
mergeConfig(config, c) ==
    LET server ==
            ServerConfig(
                IF c.Server.Port > 0 THEN c.Server.Port ELSE config.Server.Port,
                IF c.Server.Host # << >> THEN c.Server.Host
                ELSE config.Server.Host,
                IF c.Server.ReadTimeout > 0 THEN c.Server.ReadTimeout
                ELSE config.Server.ReadTimeout,
                IF c.Server.WriteTimeout > 0 THEN c.Server.WriteTimeout
                ELSE config.Server.WriteTimeout)
        graphql ==
            IF c.GraphQL = << >> THEN config.GraphQL
            ELSE IF config.GraphQL = << >> THEN c.GraphQL
            ELSE <<MergeGraphQL(config.GraphQL[1], c.GraphQL[1])>>
    IN Config(server, config.Endpoints \o c.Endpoints, graphql)

\* what the i-th file declares: its endpoint, type, query and mutation are
\* named after the file
FilePaths == << <<"/", "f1">>, <<"/", "f2">>, <<"/", "f3">> >>

FileTypeNames == <<"User", "Post", "Tag">>

FileMutationNames == <<"m1", "m2", "m3">>

FileEndpoints(i) == <<Endpoint(FilePaths[i], GET, UnsetStatus)>>

FileTypes(i) == <<GraphQLType(FileTypeNames[i], [f \in {"id"} |-> <<"ID", "!">>])>>

FileQueries(i) ==
    <<GraphQLQuery(FieldNames[i], <<FileTypeNames[i]>>, EmptyMap, <<"1">>)>>

FileMutations(i) ==
    <<GraphQLQuery(FileMutationNames[i], <<"String">>, EmptyMap, <<"\"a\"">>)>>

\* the [graphql] sections a file can have: none, or one with or without
\* enabled, path and declarations
FileGraphQL(i) ==
    { << >> } \cup
    { <<GraphQLSection(e, p, IF d THEN FileTypes(i) ELSE << >>,
                       IF d THEN FileQueries(i) ELSE << >>,
                       IF d THEN FileMutations(i) ELSE << >>)>> :
        e \in BOOLEAN, p \in { << >>, <<"/", "gql">> },
        d \in BOOLEAN }

\* a file sets the port and declares an endpoint, or does neither
FileConfigs(i) ==
    { Config(ServerConfig(IF own THEN 9090 ELSE 0, << >>, 0, 0),
             IF own THEN FileEndpoints(i) ELSE << >>, g) :
        own \in BOOLEAN, g \in FileGraphQL(i) }

\* the lists of n files, the i-th one of FileConfigs(i)
RECURSIVE FileListsOf(_)
FileListsOf(n) ==
    IF n = 0 THEN { << >> }
    ELSE { Append(l, c) : l \in FileListsOf(n - 1), c \in FileConfigs(n) }

FileLists == UNION { FileListsOf(n) : n \in 0..MaxFiles }

InitLoad ==
    /\ RouterIdle
    /\ MatchIdle
    /\ HandlerIdle
    /\ ServeIdle
    /\ TypesIdle
    /\ GraphQLHandlerIdle
    /\ files \in FileLists
    /\ loader = NewLoader

\* l.LoadFile(path) of the next file of the directory, which parses
LoadFile ==
    /\ loader.loaded < Len(files)
    /\ loader' = [config |-> mergeConfig(loader.config, files[loader.loaded + 1]),
                  loaded |-> loader.loaded + 1]
    /\ UNCHANGED <<routerVars, panicked, lastCall, resp, matchVars,
                   handlerVars, serveVars, typeVars, gqlVars, files>>

NextLoad == LoadFile

SpecLoad == InitLoad /\ [][NextLoad]_vars

(***************************************************************************)
(* Properties                                                              *)
(***************************************************************************)
Served == lastCall.op = "ServeHTTP"

Registered == lastCall.op = "RegisterEndpoint"

\* the request of the last ServeHTTP, the input of the last RegisterEndpoint
Req == lastCall.req[1]

Input == lastCall.endpoint[1]

EndsWithSlash(s) == Len(s) > 0 /\ s[Len(s)] = "/"

WithoutOneSlash(s) ==
    IF EndsWithSlash(s) THEN [i \in 1..(Len(s) - 1) |-> s[i]] ELSE s

IsLiteralPrefix(p, s) == Len(p) <= Len(s) /\ \A i \in 1..Len(p) : s[i] = p[i]

\* the three rules of the pattern matcher, stated on the elements
MatchRules(pattern, path) ==
    \/ pattern = path
    \/ WithoutOneSlash(pattern) = WithoutOneSlash(path)
    \/ EndsWithSlash(pattern) /\ IsLiteralPrefix(pattern, path)

\* C10: matchesPattern(pattern, path) is true exactly when pattern equals
\* path, or they are equal after removing one trailing "/" from each, or
\* pattern ends with "/" and is a literal prefix of path; so "/api/" matches
\* "/api/users/123", "/api/users/" matches "/api/users", and "/api/users"
\* does not match "/api/products".
C10_MatchesPatternRules ==
    /\ mpOut.done => (mpOut.result <=> MatchRules(mpIn[1], mpIn[2]))
    /\ (mpOut.done /\ mpIn = <<ApiDir, <<"/", "api", "/", "users", "/", "123">> >>)
           => mpOut.result
    /\ (mpOut.done /\ mpIn = <<ApiUsers \o <<"/">>, ApiUsers>>) => mpOut.result
    /\ (mpOut.done /\ mpIn = <<ApiUsers, <<"/", "api", "/", "products">> >>)
           => ~mpOut.result

C10_Witness ==
    /\ mpOut.done
    /\ mpIn = <<ApiDir, <<"/", "api", "/", "users", "/", "123">> >>
    /\ mpOut.result

\* C7: RegisterEndpoint with an empty path returns an error and leaves the
\* path/method table, the endpoint list and the installed dispatch targets
\* as they were.
C7_EmptyPathLeavesRouterUnchanged ==
    [][ (lastCall'.op = "RegisterEndpoint" /\ lastCall'.endpoint[1].Path = << >>)
            => /\ lastCall'.err = EmptyPathError
               /\ ~panicked'
               /\ UNCHANGED <<pathMethods, endpoints, mux>> ]_vars

C7_Witness ==
    /\ Registered
    /\ Input.Path = << >>
    /\ lastCall.err = EmptyPathError
    /\ Len(endpoints) > 0

UpperCaseLetters == {"A", "C", "D", "E", "G", "H", "L", "O", "P", "S", "T", "U"}

IsUpperCase(method) == \A i \in 1..Len(method) : method[i] \in UpperCaseLetters

\* the upper-case form of the methods a configuration gives
UpperCaseForm(method) ==
    CASE method = << >> -> GET
      [] method = <<"p", "o", "s", "t">> -> POST
      [] method = <<"p", "u", "t">> -> PUT
      [] OTHER -> method

\* C8: every descriptor is stored under an upper-cased method: an empty
\* method as GET, any other in its upper-case form; every method key of the
\* table and every method of the endpoint list is upper-case, and a
\* descriptor registered as "post" is the one served for POST requests.
C8_MethodsStoredUpperCase ==
    /\ \A p \in DOMAIN pathMethods : \A m \in DOMAIN pathMethods[p] :
           /\ m # << >> /\ IsUpperCase(m)
           /\ pathMethods[p][m].Method = m
    /\ \A i \in 1..Len(endpoints) :
           endpoints[i].Method # << >> /\ IsUpperCase(endpoints[i].Method)
    /\ (Registered /\ lastCall.err = "" /\ ~panicked) =>
           LET m == UpperCaseForm(Input.Method) IN
           /\ m \in DOMAIN pathMethods[Input.Path]
           /\ pathMethods[Input.Path][m] = [Input EXCEPT !.Method = m]
           /\ endpoints[Len(endpoints)] = [Input EXCEPT !.Method = m]
    /\ (Served /\ Req.Method = POST /\ Req.Path = ApiUsers
            /\ Len(endpoints) > 0
            /\ endpoints[Len(endpoints)]
                   = Endpoint(ApiUsers, POST, Created)) =>
           /\ resp.kind = "Handler"
           /\ resp.status = 201
           /\ resp.endpoint = <<Endpoint(ApiUsers, POST, Created)>>

C8_Witness ==
    /\ Served /\ Req.Method = POST /\ Req.Path = ApiUsers
    /\ resp.kind = "Handler" /\ resp.status = 201
    /\ \A i \in 1..Len(endpoints) : endpoints[i].Method = POST
    /\ Len(endpoints) = 1

\* the paths for which a registration has succeeded
RegisteredPaths == {endpoints[i].Path : i \in 1..Len(endpoints)}

\* the step stores a descriptor for the pair (p, m)
StoresPair(p, m) ==
    /\ Len(endpoints') = Len(endpoints) + 1
    /\ endpoints'[Len(endpoints')].Path = p
    /\ endpoints'[Len(endpoints')].Method = m

\* C6: while no registration call has panicked, a path is a key of the
\* path/method table iff a registration for it has succeeded, and its
\* method map is not empty; registering a further method for a path keeps
\* every method the path already had mapped to its unchanged descriptor.
C6_TableKeysAndAddedMethods ==
    /\ [](~panicked =>
            /\ DOMAIN pathMethods = RegisteredPaths
            /\ \A p \in DOMAIN pathMethods : DOMAIN pathMethods[p] # {})
    /\ [][ \A p \in DOMAIN pathMethods : \A m \in DOMAIN pathMethods[p] :
             \/ StoresPair(p, m)
             \/ /\ p \in DOMAIN pathMethods'
                /\ m \in DOMAIN pathMethods'[p]
                /\ pathMethods'[p][m] = pathMethods[p][m] ]_vars

C6_Witness ==
    /\ Registered /\ lastCall.err = "" /\ ~panicked
    /\ ApiUsers \in DOMAIN pathMethods
    /\ DOMAIN pathMethods[ApiUsers] = {GET, POST}
    /\ pathMethods[ApiUsers][GET] = endpoints[1]
    /\ pathMethods[ApiUsers][POST] = endpoints[2]

\* the pair (p, m) is in the path/method table
InTable(p, m) == p \in DOMAIN pathMethods /\ m \in DOMAIN pathMethods[p]

\* the last successful registration of the pair (p, m)
LastRegistered(p, m) ==
    LET same(i) == endpoints[i].Path = p /\ endpoints[i].Method = m
        last == CHOOSE i \in 1..Len(endpoints) :
                    same(i) /\ \A j \in (i + 1)..Len(endpoints) : ~same(j)
    IN endpoints[last]

\* C5: registering the same (path, method) pair twice with different
\* descriptors is last-write-wins: the table holds the descriptor of the
\* last registration, and a later request with that path and method gets
\* what the handler built from that descriptor produces (its status,
\* headers, delay and template), never what an earlier one would.
C5_LastWriteWins ==
    ~panicked =>
        /\ \A p \in DOMAIN pathMethods : \A m \in DOMAIN pathMethods[p] :
               pathMethods[p][m] = LastRegistered(p, m)
        /\ (Served /\ InTable(Req.Path, Req.Method)) =>
               LET d == LastRegistered(Req.Path, Req.Method) IN
               /\ resp.endpoint = <<d>>
               /\ resp \in Handler(d, Req)
               /\ resp.slept = (IF d.Delay > 0 THEN d.Delay ELSE 0)
               /\ \A i \in 1..Len(endpoints) :
                      endpoints[i] # d => resp \notin Handler(endpoints[i], Req)

C5_Witness ==
    /\ Served /\ Req.Path = ApiUsers /\ Req.Method = POST
    /\ endpoints = <<Endpoint(ApiUsers, POST, Created),
                     Endpoint(ApiUsers, POST, UnsetStatus)>>
    /\ resp.kind = "Handler" /\ resp.status = 200 /\ resp.slept = 0
    /\ resp.endpoint = <<Endpoint(ApiUsers, POST, UnsetStatus)>>

\* no pattern of findMatchingPattern matches the request
NoPatternMatches(r) ==
    /\ r.Path # HealthPath
    /\ ~(hasGraphQL /\ r.Path = graphqlPath)
    /\ \A i \in 1..Len(endpoints) : ~matchesPattern(endpoints[i].Path, r.Path)

\* C4: a request whose path is not /health, is not the registered GraphQL
\* path and matches no registered endpoint path gets status 404,
\* Content-Type application/json and the body
\* {"error":"endpoint not found","path":"<path>","method":"<method>"} with
\* its own path and method, whatever its method.
C4_UnmatchedPathGetsJSON404 ==
    (Served /\ NoPatternMatches(Req)) =>
        /\ resp.status = 404
        /\ "Content-Type" \in DOMAIN resp.headers
        /\ resp.headers["Content-Type"] = <<"application/json">>
        /\ resp.body = <<"{\"error\":\"endpoint not found\",\"path\":\"">>
                           \o Req.Path \o <<"\",\"method\":\"">>
                           \o Req.Method \o <<"\"}">>

C4_Witness ==
    /\ Served /\ Req.Path = <<"/", "other">> /\ Req.Method = DELETE
    /\ Len(endpoints) > 0 /\ hasGraphQL
    /\ resp.status = 404
    /\ resp.body = <<"{\"error\":\"endpoint not found\",\"path\":\"",
                     "/", "other", "\",\"method\":\"",
                     "D", "E", "L", "E", "T", "E", "\"}">>

\* the parts of a text between the occurrences of a separator atom
RECURSIVE Split(_, _)
Split(s, sep) ==
    IF \A i \in 1..Len(s) : s[i] # sep THEN <<s>>
    ELSE LET k == CHOOSE i \in 1..Len(s) :
                      s[i] = sep /\ \A j \in 1..(i - 1) : s[j] # sep
         IN <<SubSeq(s, 1, k - 1)>> \o Split(SubSeq(s, k + 1, Len(s)), sep)

Elements(seq) == {seq[i] : i \in 1..Len(seq)}

\* the value of "received" in a 405 body
Received(body) ==
    LET k == CHOOSE i \in 1..Len(body) : body[i] = ",\"received\":\""
    IN SubSeq(body, k + 1, Len(body) - 1)

\* C2: a request to a path that has registered methods, with a method that
\* is not one of them, gets status 405, an Allow header whose ", "
\* separated entries are as a set the methods registered for the path, and
\* a body whose "received" value is the request's method; no descriptor's
\* status, headers, delay or body is used.
C2_UnregisteredMethodGets405 ==
    (Served /\ Req.Path \in DOMAIN pathMethods
            /\ DOMAIN pathMethods[Req.Path] # {}
            /\ Req.Method \notin DOMAIN pathMethods[Req.Path]) =>
        /\ resp.status = 405
        /\ "Allow" \in DOMAIN resp.headers
        /\ Elements(Split(resp.headers["Allow"], ", "))
               = DOMAIN pathMethods[Req.Path]
        /\ Len(Split(resp.headers["Allow"], ", "))
               = Cardinality(DOMAIN pathMethods[Req.Path])
        /\ \E i \in 1..Len(resp.body) : resp.body[i] = ",\"received\":\""
        /\ Received(resp.body) = Req.Method
        /\ resp.endpoint = << >>
        /\ resp.slept = 0

C2_Witness ==
    /\ Served /\ Req.Path = ApiUsers /\ Req.Method = DELETE
    /\ ApiUsers \in DOMAIN pathMethods
    /\ DOMAIN pathMethods[ApiUsers] = {GET, POST}
    /\ resp.status = 405
    /\ resp.headers["Allow"] = <<"P", "O", "S", "T", ", ", "G", "E", "T">>

\* a text that is one or more JSON strings separated by commas
RECURSIVE IsJSONStrings(_)
IsJSONStrings(t) ==
    /\ Len(t) >= 2
    /\ t[1] = "\""
    /\ \E j \in 2..Len(t) : t[j] = "\""
    /\ LET close == CHOOSE j \in 2..Len(t) :
                        t[j] = "\"" /\ \A i \in 2..(j - 1) : t[i] # "\""
           rest == SubSeq(t, close + 1, Len(t))
       IN \/ rest = << >>
          \/ Len(rest) > 1 /\ rest[1] = "," /\ IsJSONStrings(Tail(rest))

\* a text that is a JSON array of strings
IsJSONStringArray(t) ==
    /\ Len(t) >= 2
    /\ t[1] = "[" /\ t[Len(t)] = "]"
    /\ Len(t) = 2 \/ IsJSONStrings(SubSeq(t, 2, Len(t) - 1))

\* a 405 body that is a JSON object with the keys error, allowed, received
WellFormed405Body(body) ==
    /\ Len(body) >= 3
    /\ body[1] = "{\"error\":\"method not allowed\",\"allowed\":"
    /\ body[Len(body)] = "\"}"
    /\ \E k \in 2..Len(body) :
           /\ body[k] = ",\"received\":\""
           /\ IsJSONStringArray(SubSeq(body, 2, k - 1))
           /\ \A i \in (k + 1)..(Len(body) - 1) : body[i] \in UpperCaseLetters

\* C3: the 405 body is a well-formed JSON object with the keys error,
\* allowed (a JSON array of method strings separated by commas) and
\* received, whatever the number of methods registered on the path.
C3_MethodNotAllowedBodyIsJSON ==
    resp.kind = "MethodNotAllowed" => WellFormed405Body(resp.body)

\* the status the descriptor asks for: its own when positive, else 200
ConfiguredStatus(d) == IF d.Status > 0 THEN d.Status ELSE 200

\* C9: the status written for a matched endpoint is the configured status
\* when it is positive, and 200 when it is unset (0) or negative.
C9_StatusDefaultsTo200 ==
    (Served /\ resp.endpoint # << >>) =>
        /\ resp.kind = "Handler"
        /\ resp.status = ConfiguredStatus(resp.endpoint[1])

\* C1: for every (path, method) pair of the table, a request with that path
\* and method gets the configured status of the stored descriptor, every
\* configured header, and the descriptor's template after substitution,
\* never a 404 or 405.
C1_RegisteredPairIsServed ==
    (Served /\ InTable(Req.Path, Req.Method)) =>
        LET d == pathMethods[Req.Path][Req.Method] IN
        /\ resp.kind = "Handler"
        /\ resp.status = ConfiguredStatus(d)
        /\ \A k \in DOMAIN d.Headers :
               /\ CanonicalMIMEHeaderKey(k) \in DOMAIN resp.headers
               /\ resp.headers[CanonicalMIMEHeaderKey(k)] = d.Headers[k]
        /\ \E order \in Orders(DOMAIN Req.Query) :
               resp.body = processResponse(d.Response, Req, order)


\* the first endpoint path, in registration order, the pattern rules match
FirstEndpointPattern(r) ==
    LET hits == {i \in 1..Len(endpoints) :
                     MatchRules(endpoints[i].Path, r.Path)}
    IN endpoints[CHOOSE i \in hits : \A j \in hits : i <= j].Path

\* the request is checked against the endpoint patterns and one matches
ReachesEndpointPatterns(r) ==
    /\ r.Path # HealthPath
    /\ ~(hasGraphQL /\ r.Path = graphqlPath)
    /\ \E i \in 1..Len(endpoints) : MatchRules(endpoints[i].Path, r.Path)

\* the response was produced from the method table of the path p
AnsweredFrom(p) ==
    /\ p \in DOMAIN pathMethods
    /\ IF Req.Method \in DOMAIN pathMethods[p]
       THEN resp.endpoint = <<pathMethods[p][Req.Method]>>
       ELSE /\ resp.kind = "MethodNotAllowed"
            /\ Elements(Split(resp.headers["Allow"], ", "))
                   = DOMAIN pathMethods[p]

\* C11 as stated, on the requests for a registered path: the response is
\* produced from the method table of the first pattern that matches in
\* registration order, so "/api/" registered before "/api/users" answers
\* the requests for /api/users.
C11_FirstMatchWins ==
    (Served /\ ~panicked /\ ReachesEndpointPatterns(Req)
            /\ Req.Path \in RegisteredPaths) =>
        AnsweredFrom(FirstEndpointPattern(Req))

\* the registered directory-style paths that are a prefix of the path
DirPatterns(path) ==
    {p \in RegisteredPaths : EndsWithSlash(p) /\ IsLiteralPrefix(p, path)}

LongestOf(S) == CHOOSE p \in S : \A q \in S : Len(q) <= Len(p)

\* C11 (amended): dispatch is by the most specific installed pattern, not
\* by registration order.  A request whose path is a registered endpoint
\* path is answered from the method table of that path, also when a
\* directory-style pattern that matches it was registered before; a
\* directory-style pattern answers the requests below it that have no
\* pattern of their own, the longest such pattern first.
C11_MostSpecificPatternWins ==
    (Served /\ ~panicked /\ ReachesEndpointPatterns(Req)) =>
        /\ Req.Path \in RegisteredPaths => AnsweredFrom(Req.Path)
        /\ (Req.Path \notin RegisteredPaths
               /\ (Req.Path \o <<"/">>) \notin RegisteredPaths
               /\ DirPatterns(Req.Path) # {}) =>
               AnsweredFrom(LongestOf(DirPatterns(Req.Path)))

C11_Witness ==
    /\ Served /\ ~panicked
    /\ Req.Path = ApiUsers /\ Req.Method = GET
    /\ Len(endpoints) = 2
    /\ endpoints[1].Path = ApiDir /\ endpoints[1].Method = GET
    /\ endpoints[2].Path = ApiUsers /\ endpoints[2].Method = GET
    /\ resp.endpoint = <<endpoints[2]>>

\* C12: a registered path P and P with one trailing "/" added or removed
\* are equivalent for dispatch: a request with a method M registered for P,
\* sent to the other form of P, is answered by the descriptor of (P, M)
\* with its configured status and its body.
C12_TrailingSlashEquivalent ==
    (Served /\ ~panicked) =>
        \A p \in DOMAIN pathMethods :
            (/\ p # Req.Path
             /\ WithoutOneSlash(p) = WithoutOneSlash(Req.Path)
             /\ ReachesEndpointPatterns(Req)
             /\ Req.Method \in DOMAIN pathMethods[p]) =>
                LET d == pathMethods[p][Req.Method] IN
                /\ resp.kind = "Handler"
                /\ resp.endpoint = <<d>>
                /\ resp.status = ConfiguredStatus(d)
                /\ \E order \in Orders(DOMAIN Req.Query) :
                       resp.body = processResponse(d.Response, Req, order)


\* the descriptor and the request of the studied call of Handler
HDesc == hIn.endpoint

HReq == hIn.req

\* the request is one whose body processResponse substitutes
BodyReplaceable(r) == r.Method \in {POST, PUT, PATCH} /\ JSONValid(r.Body)

\* the value a token of a template stands for; any other text stands for
\* itself
TokenValue(a, r) ==
    CASE a = "{{path}}" -> r.Path
      [] a = "{{method}}" -> r.Method
      [] \E k \in DOMAIN r.Query : a = "{{query." \o k \o "}}" ->
             r.Query[CHOOSE k \in DOMAIN r.Query :
                         a = "{{query." \o k \o "}}"][1]
      [] a = "{{body}}" /\ BodyReplaceable(r) -> StripWS(r.Body)
      [] OTHER -> <<a>>

\* the template with every token replaced by its value
RECURSIVE Substituted(_, _)
Substituted(t, r) ==
    IF t = << >> THEN << >>
    ELSE TokenValue(Head(t), r) \o Substituted(Tail(t), r)

\* C13: the body is the template with every {{path}} replaced by the
\* request path, every {{method}} by the request method, every
\* {{query.NAME}} of a parameter the request has by the first value of that
\* parameter; a {{query.NAME}} of a parameter the request does not have and
\* all text outside the tokens are unchanged.
C13_TokensReplacedByValues ==
    hOut.kind = "Handler" => hOut.body = Substituted(HDesc.Response, HReq)

\* the number of occurrences of an atom in a text
Count(t, a) == Cardinality({i \in 1..Len(t) : t[i] = a})

\* the text holds the part somewhere in it
Contains(t, part) ==
    \E i \in 0..(Len(t) - Len(part)) :
        \A j \in 1..Len(part) : t[i + j] = part[j]

\* C14: {{body}} is replaced by the compact form of the request body
\* exactly when the method is POST, PUT or PATCH and the body is valid
\* JSON; for any other method and for an absent or invalid body every
\* {{body}} stays as it is and the request completes with the configured
\* status.
C14_BodyReplacedIffValidJSON ==
    hOut.kind # "none" =>
        IF BodyReplaceable(HReq)
        THEN hOut.kind = "Handler" =>
                 /\ Count(hOut.body, "{{body}}") = 0
                 /\ Count(HDesc.Response, "{{body}}") > 0 =>
                        Contains(hOut.body, StripWS(HReq.Body))
        ELSE /\ hOut.kind = "Handler"
             /\ hOut.status = ConfiguredStatus(HDesc)
             /\ Count(hOut.body, "{{body}}")
                    >= Count(HDesc.Response, "{{body}}")

\* the values the descriptor configures for Content-Type, under any
\* spelling of the header name
ContentTypeValues(d) ==
    {d.Headers[k] : k \in DOMAIN d.Headers \cap {"Content-Type", "content-type"}}

\* C15 as stated: the response carries Content-Type application/json
\* exactly when the descriptor's headers do not set Content-Type; when they
\* do, the configured value is sent.
C15_DefaultContentTypeIffUnset ==
    hOut.kind = "Handler" =>
        /\ "Content-Type" \in DOMAIN hOut.headers
        /\ hOut.headers["Content-Type"] = <<"application/json">>
               <=> ContentTypeValues(HDesc) = {}
        /\ ContentTypeValues(HDesc) # {} =>
               hOut.headers["Content-Type"] \in ContentTypeValues(HDesc)

\* C15 (amended): the response carries Content-Type application/json when
\* the descriptor's headers set no Content-Type or set it to the empty
\* string; when they set a non-empty value, that value is sent and
\* application/json is not.  With two spellings of the name configured,
\* either one may be the one that counts.
C15_DefaultContentTypeIffUnsetOrEmpty ==
    hOut.kind = "Handler" =>
        LET configured == ContentTypeValues(HDesc)
            sent == hOut.headers["Content-Type"]
        IN /\ "Content-Type" \in DOMAIN hOut.headers
           /\ configured \subseteq {<< >>} => sent = <<"application/json">>
           /\ (configured # {} /\ << >> \notin configured) =>
                  sent \in configured
           /\ \E v \in configured \cup {<< >>} :
                  sent = IF v = << >> THEN <<"application/json">> ELSE v
           /\ sent # << >>

C15_Witness ==
    /\ hOut.kind = "Handler"
    /\ HDesc.Headers = [k \in {"Content-Type"} |-> << >>]
    /\ hOut.headers["Content-Type"] = <<"application/json">>


\* the parts of the response the request on c has produced so far
HeadersProduced(c) == conns[c].out.headers # EmptyMap

StatusProduced(c) == conns[c].out.status # 0

BodyProduced(c) == conns[c].out.kind = "Handler"

\* C16: for a descriptor with a delay > 0 no part of the response (header,
\* status, body) is produced before the delay has elapsed, and the parts
\* are then produced in the order headers, status, body; for a delay <= 0
\* the request is never suspended.
C16_DelayBeforeResponse ==
    \A c \in DOMAIN conns :
        conns[c].endpoint # << >> =>
            LET d == conns[c].endpoint[1] IN
            /\ (d.Delay > 0 /\ (HeadersProduced(c) \/ StatusProduced(c)
                                   \/ BodyProduced(c))) =>
                   conns[c].out.slept = d.Delay
            /\ Sleeping(c) => conns[c].out = Response("pending", 0, EmptyMap,
                                                      << >>, 0, <<d>>)
            /\ StatusProduced(c) => HeadersProduced(c)
            /\ BodyProduced(c) => StatusProduced(c)
            /\ conns[c].pc = "done" =>
                   HeadersProduced(c) /\ StatusProduced(c) /\ BodyProduced(c)
            /\ d.Delay <= 0 => conns[c].out.slept = 0 /\ ~Sleeping(c)

C16_Witness ==
    \E c \in DOMAIN conns :
        /\ conns[c].endpoint # << >>
        /\ conns[c].endpoint[1].Delay = 100
        /\ conns[c].out.slept = 100
        /\ HeadersProduced(c) /\ StatusProduced(c) /\ ~BodyProduced(c)

\* C17: a request suspended in its delay blocks only itself: while it
\* sleeps, every other request can be accepted and dispatched, and every
\* other request in progress can take its next step, also one to the same
\* endpoint.
C17_SleepBlocksOnlyItself ==
    \A c \in DOMAIN conns : \A o \in DOMAIN conns \ {c} :
        Sleeping(c) =>
            /\ conns[o].pc = "idle" =>
                   \A r \in ServeRequests : ENABLED StartRequest(o, r)
            /\ conns[o].pc = "running" => ENABLED StepRequest(o)

C17_Witness ==
    /\ DOMAIN conns = Conns
    /\ Sleeping(1)
    /\ conns[2].pc = "done"
    /\ 1 \in conns[2].during
    /\ conns[2].endpoint = conns[1].endpoint
    /\ conns[2].out.kind = "Handler"
    /\ conns[2].out.slept = 100


\* the five scalar names
ScalarNames == {"String", "Int", "Float", "Boolean", "ID"}

\* the decomposition of a signature: one trailing "!" removed, then the
\* brackets when what is left is longer than two characters and wrapped
SigNonNull(t) == Len(t) > 0 /\ t[Len(t)] = "!"

SigBody(t) == IF SigNonNull(t) THEN SubSeq(t, 1, Len(t) - 1) ELSE t

SigList(t) ==
    LET b == SigBody(t) IN
    Len(b) > 0 /\ b[1] = "[" /\ b[Len(b)] = "]" /\ ByteLen(b) > 2

SigBase(t) ==
    IF SigList(t) THEN SubSeq(SigBody(t), 2, Len(SigBody(t)) - 1)
    ELSE SigBody(t)

\* the type the decomposition stands for, on the base type given
Wrapped(t, base) ==
    LET inner == IF SigList(t) THEN NewList(base) ELSE base
    IN IF SigNonNull(t) THEN NewNonNull(inner) ELSE inner

\* C18: parseType is total; it strips one trailing "!" and then, when the
\* rest is longer than two characters and wrapped in [ ], the brackets;
\* String, Int, Float, Boolean and ID map to their scalars and every other
\* base name, "" and "[]" included, to String; "[String]!" is a non-null
\* list of nullable String and "Int" is Int.
C18_ParseTypeDecomposition ==
    tOut.op = "parseType" =>
        LET base == SigBase(tIn.sig)
            scalar == IF Len(base) = 1 /\ base[1] \in ScalarNames
                      THEN Scalar(base[1]) ELSE Scalar("String")
        IN /\ tOut.result = Wrapped(tIn.sig, scalar)
           /\ tIn.sig = <<"[", "String", "]", "!">> =>
                  tOut.result = NewNonNull(NewList(Scalar("String")))
           /\ tIn.sig = <<"Int">> => tOut.result = Scalar("Int")
           /\ tIn.sig \in {<< >>, <<"[", "]">>, <<"User">>} =>
                  tOut.result = Scalar("String")

C18_Witness ==
    /\ tOut.op = "parseType"
    /\ tIn.sig = <<"[", "String", "]", "!">>
    /\ tOut.result = NewNonNull(NewList(Scalar("String")))

\* the type at the bottom of the list and non-null wrappers
RECURSIVE Innermost(_)
Innermost(t) == IF t.of = << >> THEN t ELSE Innermost(t.of[1])

\* the type has a list wrapper
RECURSIVE HasList(_)
HasList(t) == t.kind = "List" \/ (t.of # << >> /\ HasList(t.of[1]))

\* C19: when the base name of a return-type signature, after its non-null
\* and list wrappers, is a declared type, the resolved type is built on
\* that object type, with a list wrapper when the signature is a list; the
\* String fallback is used only for a base name that is not declared.
C19_CustomTypeResolved ==
    (tOut.op = "resolveType" /\ Len(SigBase(tIn.sig)) = 1
         /\ SigBase(tIn.sig)[1] \in tIn.types) =>
        /\ Innermost(tOut.result) = Object(SigBase(tIn.sig)[1])
        /\ SigList(tIn.sig) => HasList(tOut.result)


\* the configured response text of the field the last resolver call was for
CalledResponse ==
    LET list == IF gqlCall.root = "query" THEN gqlConfig.Queries
                ELSE gqlConfig.Mutations
        i == CHOOSE i \in 1..Len(list) :
                 /\ list[i].Name = gqlCall.name
                 /\ \A j \in (i + 1)..Len(list) : list[j].Name # gqlCall.name
    IN list[i].Response

\* the kind of JSON value a text starts
FirstTokenKind(tokens) ==
    CASE tokens[1] = "{" -> "object"
      [] tokens[1] = "[" -> "array"
      [] tokens[1] \in {"\"a\"", "\"b\""} -> "string"
      [] tokens[1] \in {"true", "false"} -> "boolean"
      [] tokens[1] = "null" -> "null"
      [] OTHER -> "number"

\* C20: the stored response is parsed only when the resolver is called:
\* building the schema succeeds whatever the response texts are, every
\* call returns the JSON value of the stored text (object, array, string,
\* number, boolean or null) whatever its arguments, and every call returns
\* an error when the stored text is not valid JSON.
C20_ResolverParsesWhenCalled ==
    /\ (gqlSchema.built /\ gqlConfig.Enabled /\ Len(gqlConfig.Queries) > 0) =>
           /\ gqlSchema.err = ""
           /\ \A i \in 1..Len(gqlConfig.Queries) :
                  gqlConfig.Queries[i].Name \in DOMAIN gqlSchema.queryFields
           /\ \A i \in 1..Len(gqlConfig.Mutations) :
                  gqlConfig.Mutations[i].Name \in DOMAIN gqlSchema.mutationFields
    /\ gqlCall.root # "none" =>
           LET tokens == StripWS(CalledResponse) IN
           IF JSONValid(CalledResponse)
           THEN /\ gqlCall.out.err = ""
                /\ Len(gqlCall.out.result) = 1
                /\ gqlCall.out.result[1].tokens = tokens
                /\ gqlCall.out.result[1].kind = FirstTokenKind(tokens)
           ELSE /\ gqlCall.out.err # ""
                /\ gqlCall.out.result = << >>

C20_Witness ==
    /\ gqlSchema.built /\ gqlSchema.err = ""
    /\ gqlCall.root = "query"
    /\ gqlCall.p # EmptyMap
    /\ CalledResponse = <<"{", "invalid", "}">>
    /\ gqlCall.out.err # ""


\* the request body is one JSON value and nothing else
IsJSONText(body) ==
    LET t == StripWS(body) IN t # << >> /\ FirstValueLen(t) = Len(t)

\* a request has been answered by the GraphQL handler
GraphQLAnswered == gqlResp # NoExchange

\* C21: the GraphQL handler answers every request that is not a POST with
\* 405 without reading the body, a POST whose body is not valid JSON with
\* 400 and an error text starting "invalid request body: ", and every other
\* POST with 200 and the result envelope, also when a resolver fails; all
\* three carry Content-Type application/json.
C21_GraphQLHandlerStatuses ==
    GraphQLAnswered =>
        /\ HeaderGet(gqlResp.resp.headers, "Content-Type") = JSONContentType
        /\ IF gqlResp.req.Method # POST
           THEN gqlResp.resp.status = 405 /\ ~gqlResp.bodyRead
           ELSE IF ~IsJSONText(gqlResp.req.Body)
           THEN /\ gqlResp.resp.status = 400
                /\ gqlResp.resp.body[1] = "{\"error\":\""
                /\ gqlResp.resp.body[2] = "invalid request body: "
           ELSE /\ gqlResp.resp.status = 200
                /\ gqlResp.resp.body[1] = "{\"data\":"

\* the files merged so far
Loaded == SubSeq(files, 1, loader.loaded)

\* the concatenation of the lists of a list
RECURSIVE Flatten(_)
Flatten(lists) ==
    IF lists = << >> THEN << >>
    ELSE Flatten(SubSeq(lists, 1, Len(lists) - 1)) \o lists[Len(lists)]

\* the concatenation of what the merged files declare
Accumulated(list, part(_)) == Flatten([i \in 1..Len(list) |-> part(list[i])])

EndpointsOf(c) == c.Endpoints

TypesOf(c) == IF c.GraphQL = << >> THEN << >> ELSE c.GraphQL[1].Types

QueriesOf(c) == IF c.GraphQL = << >> THEN << >> ELSE c.GraphQL[1].Queries

MutationsOf(c) == IF c.GraphQL = << >> THEN << >> ELSE c.GraphQL[1].Mutations

\* the merged files that have a GraphQL section
Defining == {i \in 1..loader.loaded : files[i].GraphQL # << >>}

LastDefining == CHOOSE i \in Defining : \A j \in Defining : j <= i

\* C22: after merging files in load order the endpoints and the GraphQL
\* types, queries and mutations are those of the files, accumulated in
\* load order, and the enabled flag and the path of the merged GraphQL
\* section are those of the last file that has a GraphQL section.
C22_MergeAccumulatesLastWins ==
    /\ loader.config.Endpoints = Accumulated(Loaded, EndpointsOf)
    /\ (loader.config.GraphQL = << >>) <=> (Defining = {})
    /\ Defining # {} =>
           LET g == loader.config.GraphQL[1]
               last == files[LastDefining].GraphQL[1]
           IN /\ g.Types = Accumulated(Loaded, TypesOf)
              /\ g.Queries = Accumulated(Loaded, QueriesOf)
              /\ g.Mutations = Accumulated(Loaded, MutationsOf)
              /\ g.Enabled = last.Enabled
              /\ g.Path = last.Path

\* the replacements processResponse makes for a request, each one a token
\* and the value put in its place
Replacement(token, value) == [token |-> token, value |-> value]

ReplacementsOf(r) ==
    {Replacement("{{path}}", r.Path), Replacement("{{method}}", r.Method)}
        \cup {Replacement(QueryToken(k), r.Query[k][1]) :
                 k \in {key \in DOMAIN r.Query : Len(r.Query[key]) > 0}}
        \cup (IF BodyReplaceable(r)
              THEN {Replacement("{{body}}", JSONCompact(r.Body))}
              ELSE {})

\* the replacements applied one after the other in the given order
RECURSIVE ApplyInOrder(_, _)
ApplyInOrder(response, order) ==
    IF order = << >> THEN response
    ELSE ApplyInOrder(ReplaceAll(response, Head(order).token, Head(order).value),
                      Tail(order))

\* C23: template substitution is order-independent: applying the
\* replacements of {{path}}, {{method}}, {{query.NAME}} and {{body}} in any
\* order gives the body processResponse gives, also when a substituted
\* value holds the text of another token.
C23_SubstitutionOrderIndependent ==
    hOut.kind = "Handler" =>
        \A order \in Orders(ReplacementsOf(HReq)) :
            ApplyInOrder(HDesc.Response, order) = hOut.body

\* C30: response bodies are deterministic: processResponse gives the same
\* body for the same template and request whatever the order in which the
\* query parameters are iterated, also when the value of one parameter
\* holds the {{query.NAME}} token of another.
C30_BodyIndependentOfQueryOrder ==
    hOut.kind = "Handler" =>
        \A order \in Orders(DOMAIN HReq.Query) :
            processResponse(HDesc.Response, HReq, order) = hOut.body

\* no registered endpoint path matches the path
NoEndpointMatches(path) ==
    \A i \in 1..Len(endpoints) : ~matchesPattern(endpoints[i].Path, path)

\* the router's own 404 for the request
IsJSON404(response, r) ==
    /\ response.status = 404
    /\ HeaderGet(response.headers, "Content-Type") = JSONContentType
    /\ response.body = <<"{\"error\":\"endpoint not found\",\"path\":\"">>
                            \o r.Path \o <<"\",\"method\":\"">>
                            \o r.Method \o <<"\"}">>

\* C24: a request to /health on a router on which RegisterHealthCheck was
\* never called, and a request to the GraphQL path when no GraphQL handler
\* was registered, get the JSON 404 with Content-Type application/json
\* when no registered endpoint path matches the request path.
C24_UnregisteredBuiltinsGetJSON404 ==
    (Served /\ NoEndpointMatches(Req.Path)) =>
        /\ (Req.Path = HealthPath /\ HealthPath \notin DOMAIN mux)
               => IsJSON404(resp, Req)
        /\ (Req.Path = DefaultGraphQLPath /\ ~hasGraphQL)
               => IsJSON404(resp, Req)

\* New has built a schema for a configuration with GraphQL enabled
SchemaBuilt == gqlSchema.built /\ gqlConfig.Enabled

ConfigTypeNames == {gqlConfig.Types[i].Name : i \in 1..Len(gqlConfig.Types)}

\* the return type is a name that is neither a primitive nor a declared type
UnknownTypeName(q) ==
    /\ Len(q.ReturnType) = 1
    /\ q.ReturnType[1] \notin ScalarNames \cup ConfigTypeNames
    /\ q.ReturnType[1] \notin {"[", "]", "!"}

\* the last declaration of the name in the list is the i-th entry
LastNamed(list, i) == \A j \in (i + 1)..Len(list) : list[j].Name # list[i].Name

\* the build logged a warning that names the type and the field
Warned(root, q) ==
    \E k \in 1..Len(gqlLog) :
        /\ gqlLog[k].root = root
        /\ gqlLog[k].returnType = q.ReturnType
        /\ gqlLog[k].name = q.Name

\* C25: when schema building resolves a query's or mutation's return type
\* whose name is neither a primitive nor a declared custom type, the build
\* does not fail, the field gets type String, and a warning naming the
\* unknown type is logged for that query or mutation (a build of a
\* configuration without queries fails whatever its types are, so the
\* mutations are looked at when there is a query).
C25_UnknownTypeWarnedAndString ==
    SchemaBuilt =>
        /\ \A i \in 1..Len(gqlConfig.Queries) :
               UnknownTypeName(gqlConfig.Queries[i]) =>
                   LET q == gqlConfig.Queries[i] IN
                   /\ gqlSchema.err = ""
                   /\ LastNamed(gqlConfig.Queries, i) =>
                          gqlSchema.queryFields[q.Name].Type = Scalar("String")
                   /\ Warned("query", q)
        /\ \A i \in 1..Len(gqlConfig.Mutations) :
               (UnknownTypeName(gqlConfig.Mutations[i])
                    /\ Len(gqlConfig.Queries) > 0) =>
                   LET m == gqlConfig.Mutations[i] IN
                   /\ gqlSchema.err = ""
                   /\ LastNamed(gqlConfig.Mutations, i) =>
                          gqlSchema.mutationFields[m.Name].Type = Scalar("String")
                   /\ Warned("mutation", m)

\* C26: buildSchema passes a root mutation type to the schema constructor
\* exactly when the configuration declares at least one mutation, and then
\* it holds the declared mutations; with no mutation the schema has no
\* mutation type; the root query type is always passed.
C26_MutationRootIffDeclared ==
    (SchemaBuilt /\ gqlPassed # << >>) =>
        LET passed == gqlPassed[1] IN
        /\ passed.Query # << >>
        /\ (passed.Mutation # << >>) <=> (Len(gqlConfig.Mutations) > 0)
        /\ passed.Mutation # << >> =>
               DOMAIN passed.Mutation[1]
                   = {gqlConfig.Mutations[i].Name :
                        i \in 1..Len(gqlConfig.Mutations)}
        /\ gqlSchema.err = "" =>
               /\ gqlSchema.hasMutation <=> (Len(gqlConfig.Mutations) > 0)
               /\ Len(gqlConfig.Mutations) = 0 =>
                      gqlSchema.mutationFields = EmptyMap

\* a schema was built for a configuration with queries and no mutation
C26_Witness ==
    /\ SchemaBuilt /\ gqlPassed # << >> /\ gqlSchema.err = ""
    /\ Len(gqlConfig.Mutations) = 0
    /\ Len(gqlConfig.Queries) > 0
    /\ gqlPassed[1].Mutation = << >>
    /\ ~gqlSchema.hasMutation

\* RegisterEndpoints has returned
RegisteredList == lastCall.op = "RegisterEndpoints"

\* the positions of the list whose descriptor has an empty path
Faulty == {i \in 1..Len(cfg) : cfg[i].Path = << >>}

FirstFaulty == CHOOSE i \in Faulty : \A j \in Faulty : i <= j

\* the descriptor as RegisterEndpoint stores it
Stored(input) == [input EXCEPT !.Method = NormalizeMethod(input.Method)]

StartupRouter ==
    RegisterEndpointsOn(
        RouterState(MapPut(EmptyMap, HealthPath, MuxHandler("HealthHandler", << >>)),
                    << >>, EmptyMap, FALSE), cfg).st

\* a request has been accepted
SomeRequest == \E c \in Conns : conns[c].pc # "idle"

\* C28: handling a request never changes the registry: the path/method
\* table, the endpoint list and the stored descriptors (and the installed
\* dispatch targets) are after every step of a request what they were
\* before it, whether it is matched, a 404 or a 405, delayed or not, so
\* under any interleaving of requests they keep their post-startup values.
C28_RequestsLeaveRegistryUnchanged ==
    /\ [][conns' # conns => UNCHANGED <<pathMethods, endpoints, mux>>]_vars
    /\ [](SomeRequest =>
             /\ pathMethods = StartupRouter.pathMethods
             /\ endpoints = StartupRouter.endpoints
             /\ mux = StartupRouter.mux)

\* two requests at once: one inside its delay, one answered with a 404
C28_Witness ==
    /\ \E c \in Conns : Sleeping(c)
    /\ \E c \in Conns : conns[c].pc = "done" /\ conns[c].out.status \in {404, 405}
    /\ pathMethods = StartupRouter.pathMethods
    /\ DOMAIN pathMethods # {}

\* C29: after any sequence of RegisterHealthCheck, RegisterGraphQL and
\* RegisterEndpoint calls with non-empty paths every call has completed
\* normally and each distinct path has one dispatch target in the mux, also
\* when an endpoint path equals /health or the GraphQL path, or when a
\* path is registered for several methods.
C29_EveryRegistrationCompletes ==
    /\ ~panicked
    /\ \A p \in RegisteredPaths :
           p \in DOMAIN mux /\ mux[p] = MuxHandler("multiMethodHandler", p)
    /\ hasGraphQL =>
           graphqlPath \in DOMAIN mux
               /\ mux[graphqlPath] = MuxHandler("GraphQL", << >>)
====
